---- MODULE Spec2Model ----
(***************************************************************************)
(* Review workflow service of the PR reviewer assignment service           *)
(* (internal/service/service.go) over its PostgreSQL entity store          *)
(* (internal/repository/*.go).  Every request is served by its own         *)
(* goroutine; each SQL statement outside a transaction is one atomic step  *)
(* at READ COMMITTED, and a transaction's writes become visible at COMMIT. *)
(***************************************************************************)
EXTENDS Integers, Sequences, FiniteSets, TLC

\* ---------------------------------------------------------------- bounds
NumUsers == 4       \* rows of table users
MaxPRs   == 1       \* rows table pull_requests may grow to
NumProcs == 2       \* requests served concurrently
MaxCalls == 3       \* service calls started in one behaviour
MaxTime  == 2       \* readings of time.Now() are 1..MaxTime

NULL == 0           \* SQL NULL / Go nil for team_id and merged_at

UserIDs == 1 .. NumUsers
TeamIDs == {1}
PRIDs   == 1 .. MaxPRs
Procs   == 1 .. NumProcs

\* models.PRStatus
PRStatusOpen   == "OPEN"
PRStatusMerged == "MERGED"
PRStatusClosed == "CLOSED"

\* maxCount passed to selectReviewers by CreatePullRequest
MaxReviewers == 2

\* error values returned by the service and the repositories
OK                    == "nil"
errAuthorNotFound     == "author not found"
errUserNotFound       == "user not found"
errPRNotFound         == "PR not found"
errPRNotFoundOrFinal  == "PR not found or already closed/merged"
errAddToFinalPR       == "cannot add reviewers to merged or closed PR"
errAlreadyAssigned    == "reviewer already assigned to this PR"
errAuthorCannotReview == "author cannot be a reviewer"
errReviewerNotFound   == "reviewer not found"
errReviewerInactive   == "reviewer is not active"
errAddReviewerFailed  == "failed to add reviewer"
errMergedPR           == "cannot change reviewers of merged PR"
errReviewerNotInPR    == "reviewer not found in PR"
errReviewerNoTeam     == "reviewer is not in a team"
errNoAvailable        == "failed to select new reviewer: no available reviewers in team"
errAddNewFailed       == "failed to add new reviewer"
errAlreadyInTeam      == "user already in team"
errNotInTeam          == "user not found in team"
errTeamNotFound       == "team not found"
errAddUserFailed      == "failed to add user to team"
errCreateUserFailed   == "failed to create user"

VARIABLES
    breaker,        \* the gobreaker.CircuitBreaker behind a CircuitBreaker and its callers
    flags,          \* the featureflags.Manager: its map, the Flag objects and its callers
    webhook,        \* the webhook.Manager: its queue and its workers
    teams,          \* table teams: the set of rows [id, name]
    users,          \* table users: id -> [name, is_active, team_id]
    pull_requests,  \* table pull_requests: sequence, id = index
    pr_reviewers,   \* table pr_reviewers: number of rows per (pr_id, reviewer_id)
    clock,          \* the latest reading of time.Now()
    pc,             \* per request: the statement it is about to execute
    loc,            \* per request: arguments and local variables of the call
    res,            \* per request: what the finished call returned
    calls,          \* number of calls started so far
    overtaken       \* history, per ReassignReviewer call in progress: "overtaken"
                    \* once a concurrent ReassignReviewer naming the same PR and
                    \* old reviewer has committed, "readded" once the old
                    \* reviewer has been inserted again after that, else "no"

\* the components beside the review workflow
infra == <<breaker, flags, webhook>>

vars == <<breaker, flags, webhook, teams, users, pull_requests, pr_reviewers, clock, pc, loc, res, calls, overtaken>>

\* a behaviour of the review workflow uses none of the other components
Unused == "unused"
InfraUnused == breaker = Unused /\ flags = Unused /\ webhook = Unused

\* ---------------------------------------------------------------- helpers
Min(a, b) == IF a <= b THEN a ELSE b

\* models.Statistics before any query has filled it
NoStatistics ==
    [TotalPRs |-> 0, OpenPRs |-> 0, MergedPRs |-> 0, ClosedPRs |-> 0,
     UserStats |-> {}, TeamStats |-> {}]

\* locals of a request that is not inside a call
Blank ==
    [op |-> "", pr |-> 0, u |-> 0, author |-> 0, status |-> "", team |-> NULL,
     revs |-> {}, new |-> 0, sel |-> {}, ids |-> <<>>, prq |-> <<>>, prs |-> <<>>,
     deact |-> 0, reasg |-> 0, name |-> "", stats |-> NoStatistics]

NoResult ==
    [op |-> "", pr |-> 0, u |-> 0, err |-> "", deact |-> 0, reasg |-> 0, name |-> "",
     stats |-> NoStatistics]

PRExists(id) == id \in 1 .. Len(pull_requests)

\* getReviewers: the users joined to the PR's rows of pr_reviewers
getReviewers(id) == {u \in DOMAIN users : pr_reviewers[id][u] > 0}

\* GetActiveUsersFromTeam: WHERE team_id = $1 AND is_active = true AND id != $2
GetActiveUsersFromTeam(teamID, excludeUserID) ==
    {u \in DOMAIN users :
        /\ users[u].team_id = teamID
        /\ users[u].is_active
        /\ u # excludeUserID}

selectReviewers_NoCap(teamID, authorID, maxCount) ==
    {{u \in DOMAIN users :
        users[u].team_id = teamID /\ users[u].is_active /\ u # authorID}}

\* selectReviewers: every result rand.Shuffle and the prefix can produce
selectReviewers(teamID, authorID, maxCount) ==
    LET candidates == GetActiveUsersFromTeam(teamID, authorID)
    IN  IF Cardinality(candidates) <= maxCount
        THEN {candidates}
        ELSE {S \in SUBSET candidates : Cardinality(S) = maxCount}

selectRandomReviewer_NoExclude(teamID, authorID, excludeIDs) ==
    {u \in DOMAIN users :
        users[u].team_id = teamID /\ users[u].is_active /\ u # authorID}

\* selectRandomReviewer: the filtered pool filtered[rand.Intn] draws from
selectRandomReviewer(teamID, authorID, excludeIDs) ==
    {c \in GetActiveUsersFromTeam(teamID, authorID) : c \notin excludeIDs}

\* request p goes on to statement s with locals l
Goto(p, l, s) ==
    /\ loc' = [loc EXCEPT ![p] = l]
    /\ pc' = [pc EXCEPT ![p] = s]
    /\ res' = res

\* the call of request p, with locals l, returns e
Finish(p, l, e) ==
    /\ loc' = [loc EXCEPT ![p] = Blank]
    /\ pc' = [pc EXCEPT ![p] = "done"]
    /\ res' = [res EXCEPT ![p] = [op |-> l.op, pr |-> l.pr, u |-> l.u, err |-> e,
                                  deact |-> l.deact, reasg |-> l.reasg,
                                  name |-> l.name, stats |-> l.stats]]

\* request p, idle, receives a request: its first statement enters the call
Enter(p) ==
    /\ pc[p] = "idle"
    /\ calls < MaxCalls
    /\ calls' = calls + 1

\* ---------------------------------------------------------------- Init
\* the store a behaviour starts from: users 1 and 2 are active members of
\* team 1, user 3 is a member of team 1, the others are in any state
\* CreateUser, UpdateUser and the team operations leave a user in; no PR yet, or the one PR that
\* CreatePullRequest(author) has created from these users
\* the teams of TeamIDs exist
InitialName == "alice"

InitialTeams == {[id |-> t, name |-> "backend"] : t \in TeamIDs}

InitialPRs ==
    {<<>>} \cup
    {<<[author_id |-> a, reviewers |-> sel]>> :
        a \in UserIDs, sel \in SUBSET UserIDs}

Init ==
    /\ teams = InitialTeams
    /\ users \in [UserIDs -> [name : {InitialName}, is_active : BOOLEAN,
                                team_id : TeamIDs \cup {NULL}]]
    /\ \A u \in 1 .. 2 : users[u] = [name |-> InitialName, is_active |-> TRUE, team_id |-> 1]
    /\ users[3].team_id = 1
    /\ \E created \in InitialPRs :
          /\ \A i \in DOMAIN created :
                created[i].reviewers \in
                    (IF users[created[i].author_id].team_id = NULL
                     THEN {{}}
                     ELSE selectReviewers(users[created[i].author_id].team_id,
                                          created[i].author_id, MaxReviewers))
          /\ pull_requests =
                [i \in DOMAIN created |->
                    [author_id |-> created[i].author_id, status |-> PRStatusOpen,
                     merged_at |-> NULL]]
          /\ pr_reviewers =
                [i \in PRIDs |-> [u \in UserIDs |->
                    IF i \in DOMAIN created /\ u \in created[i].reviewers THEN 1 ELSE 0]]
    /\ clock = 1
    /\ pc = [p \in Procs |-> "idle"]
    /\ loc = [p \in Procs |-> Blank]
    /\ res = [p \in Procs |-> NoResult]
    /\ calls = 0
    /\ overtaken = [p \in Procs |-> "no"]
    /\ InfraUnused

\* ---------------------------------------------------------------- users
\* a pointer field of a request: {} when the field is absent (nil), else {v}
Deref(ptr) == CHOOSE v \in ptr : TRUE

UpdateUser_Overwrite(p, id, req) ==
    /\ Enter(p)
    /\ LET l == [Blank EXCEPT !.op = "UpdateUser", !.u = id] IN
       IF id \notin DOMAIN users
       THEN /\ users' = users
            /\ Finish(p, l, errUserNotFound)
       ELSE /\ users' =
                  [users EXCEPT
                      ![id].name = IF req.Name = {} THEN @ ELSE Deref(req.Name),
                      ![id].is_active =
                          IF req.IsActive = {} THEN FALSE ELSE Deref(req.IsActive)]
            /\ Finish(p, l, OK)
    /\ UNCHANGED <<infra, teams, pull_requests, pr_reviewers, clock, overtaken>>

\* Service.UpdateUser -> UserRepository.Update: GetByID (existence only; user
\* rows are never deleted), then one UPDATE users SET ... WHERE id = $n whose
\* SET clauses are the fields of req that are not nil; no UPDATE when both are
UpdateUser(p, id, req) ==
    /\ Enter(p)
    /\ LET l == [Blank EXCEPT !.op = "UpdateUser", !.u = id] IN
       IF id \notin DOMAIN users
       THEN /\ users' = users
            /\ Finish(p, l, errUserNotFound)
       ELSE /\ users' =
                  [users EXCEPT
                      ![id].name = IF req.Name = {} THEN @ ELSE Deref(req.Name),
                      ![id].is_active =
                          IF req.IsActive = {} THEN @ ELSE Deref(req.IsActive)]
            /\ Finish(p, l, OK)
    /\ UNCHANGED <<infra, teams, pull_requests, pr_reviewers, clock, overtaken>>

\* TeamRepository.GetByID finds a row: SELECT ... FROM teams WHERE id = $1
TeamExists(teamID) == \E t \in teams : t.id = teamID

\* Service.AddUserToTeam, first half: teamRepo.GetByID, userRepo.GetByID and
\* the already-in-team check on the row just read
AddUserToTeam_Check(p, teamID, userID) ==
    /\ Enter(p)
    /\ LET l == [Blank EXCEPT !.op = "AddUserToTeam", !.u = userID, !.team = teamID] IN
       IF ~TeamExists(teamID)
       THEN Finish(p, l, errTeamNotFound)
       ELSE IF userID \notin DOMAIN users
       THEN Finish(p, l, errUserNotFound)
       ELSE IF users[userID].team_id = teamID
       THEN Finish(p, l, errAlreadyInTeam)
       ELSE Goto(p, l, "aut_update")
    /\ UNCHANGED <<infra, teams, users, pull_requests, pr_reviewers, clock, overtaken>>

ForeignKeyViolation_NoConstraint(teamID) == FALSE

\* users.team_id REFERENCES teams(id): a statement that would store a team_id
\* no row of teams has fails
ForeignKeyViolation(teamID) == teamID # NULL /\ ~TeamExists(teamID)

\* TeamRepository.AddUser: UPDATE users SET team_id = $1 WHERE id = $2
AddUserToTeam_Update(p) ==
    /\ pc[p] = "aut_update"
    /\ IF ForeignKeyViolation(loc[p].team)
       THEN /\ users' = users
            /\ Finish(p, loc[p], errAddUserFailed)
       ELSE /\ users' = [users EXCEPT ![loc[p].u].team_id = loc[p].team]
            /\ Finish(p, loc[p], OK)
    /\ UNCHANGED <<infra, teams, pull_requests, pr_reviewers, clock, calls, overtaken>>

\* Service.RemoveUserFromTeam -> TeamRepository.RemoveUser:
\* UPDATE users SET team_id = NULL WHERE id = $1 AND team_id = $2
RemoveUserFromTeam(p, teamID, userID) ==
    /\ Enter(p)
    /\ LET l == [Blank EXCEPT !.op = "RemoveUserFromTeam", !.u = userID, !.team = teamID] IN
       IF userID \in DOMAIN users /\ users[userID].team_id = teamID
       THEN /\ users' = [users EXCEPT ![userID].team_id = NULL]
            /\ Finish(p, l, OK)
       ELSE /\ users' = users
            /\ Finish(p, l, errNotInTeam)
    /\ UNCHANGED <<infra, teams, pull_requests, pr_reviewers, clock, overtaken>>

\* ---------------------------------------------------------------- store
PKConflict_NoKey(id, u) == FALSE

\* pr_reviewers PRIMARY KEY (pr_id, reviewer_id): an INSERT of a key that has a
\* committed row fails with a unique violation
PKConflict(id, u) == pr_reviewers[id][u] > 0

\* the row (id, u) of pr_reviewers is deleted by another request's open
\* transaction: a DELETE or an INSERT of that key waits for that transaction
RowLocked(p, id, u) ==
    \E q \in Procs \ {p} : pc[q] = "rp_insert" /\ loc[q].pr = id /\ loc[q].u = u

\* the history variable after request p has committed rows of PR id: it
\* removed the row of `removed` (0: none) in a call of op and inserted the
\* row of `inserted`
Overtake(p, op, id, removed, inserted) ==
    [q \in Procs |->
        IF q # p /\ loc[q].op = "ReassignReviewer" /\ loc[q].pr = id
        THEN IF op = "ReassignReviewer" /\ loc[q].u = removed THEN "overtaken"
             ELSE IF loc[q].u = inserted /\ overtaken[q] = "overtaken" THEN "readded"
             ELSE overtaken[q]
        ELSE overtaken[q]]

addReviewersTx_First(rows, id, reviewers) ==
    [rows EXCEPT ![id] = [u \in UserIDs |->
        IF reviewers # {} /\ u = CHOOSE r \in reviewers : TRUE THEN @[u] + 1 ELSE @[u]]]

\* INSERT INTO pr_reviewers (pr_id, reviewer_id), one row per reviewer
addReviewersTx(rows, id, reviewers) ==
    [rows EXCEPT ![id] = [u \in UserIDs |-> IF u \in reviewers THEN @[u] + 1 ELSE @[u]]]

\* a reading of time.Now(): not before the latest earlier reading
Now == {clock, Min(clock + 1, MaxTime)}

\* ---------------------------------------------------------------- pull requests
CreatePullRequest_GetAuthor_NoCheck(p, authorID) ==
    /\ Enter(p)
    /\ Len(pull_requests) + Cardinality({q \in Procs : loc[q].op = "CreatePullRequest"})
          < Cardinality(DOMAIN pr_reviewers)
    /\ LET l == [Blank EXCEPT !.op = "CreatePullRequest", !.u = authorID, !.author = authorID] IN
       IF authorID \notin DOMAIN users \/ users[authorID].team_id = NULL
       THEN Goto(p, l, "cpr_create")
       ELSE Goto(p, [l EXCEPT !.team = users[authorID].team_id], "cpr_select")
    /\ UNCHANGED <<infra, teams, users, pull_requests, pr_reviewers, clock, overtaken>>

\* Service.CreatePullRequest: userRepo.GetByID(req.AuthorID)
CreatePullRequest_GetAuthor(p, authorID) ==
    /\ Enter(p)
    /\ Len(pull_requests) + Cardinality({q \in Procs : loc[q].op = "CreatePullRequest"})
          < Cardinality(DOMAIN pr_reviewers)
    /\ LET l == [Blank EXCEPT !.op = "CreatePullRequest", !.u = authorID, !.author = authorID] IN
       IF authorID \notin DOMAIN users
       THEN Finish(p, l, errAuthorNotFound)
       ELSE IF users[authorID].team_id = NULL
       THEN Goto(p, l, "cpr_create")
       ELSE Goto(p, [l EXCEPT !.team = users[authorID].team_id], "cpr_select")
    /\ UNCHANGED <<infra, teams, users, pull_requests, pr_reviewers, clock, overtaken>>

\* Service.CreatePullRequest: selectReviewers(*author.TeamID, author.ID, 2)
CreatePullRequest_Select(p) ==
    /\ pc[p] = "cpr_select"
    /\ \E reviewers \in selectReviewers(loc[p].team, loc[p].author, MaxReviewers) :
          Goto(p, [loc[p] EXCEPT !.sel = reviewers], "cpr_create")
    /\ UNCHANGED <<infra, teams, users, pull_requests, pr_reviewers, clock, calls, overtaken>>

\* PRRepository.Create: the PR row and the reviewer rows in one transaction
CreatePullRequest_Create(p) ==
    /\ pc[p] = "cpr_create"
    /\ LET id == Len(pull_requests) + 1 IN
       /\ pull_requests' = Append(pull_requests,
              [author_id |-> loc[p].author, status |-> PRStatusOpen, merged_at |-> NULL])
       /\ pr_reviewers' = addReviewersTx(pr_reviewers, id, loc[p].sel)
       /\ Finish(p, [loc[p] EXCEPT !.pr = id], OK)
    /\ UNCHANGED <<infra, teams, users, clock, calls, overtaken>>

\* PRRepository.Merge: WHERE ... (status = 'OPEN' OR status = 'MERGED')
MergeWhere_AnyStatus(row) == TRUE

MergeWhere(row) == row.status = PRStatusOpen \/ row.status = PRStatusMerged

\* PRRepository.Close: WHERE ... status = 'OPEN'
CloseWhere_NotClosed(row) == row.status # PRStatusClosed

CloseWhere(row) == row.status = PRStatusOpen

Merge_NoTimestamp(row, now) == [row EXCEPT !.status = PRStatusMerged]

\* PRRepository.Merge: the row the conditional UPDATE writes
Merge(row, now) == [row EXCEPT !.status = PRStatusMerged, !.merged_at = now]

\* Service.MergePullRequest -> PRRepository.Merge:
\* UPDATE ... WHERE id = $3 AND (status = 'OPEN' OR status = 'MERGED')
MergePullRequest(p, id) ==
    /\ Enter(p)
    /\ \E now \in Now :
          /\ clock' = now
          /\ LET l == [Blank EXCEPT !.op = "MergePullRequest", !.pr = id] IN
             IF PRExists(id) /\ MergeWhere(pull_requests[id])
             THEN /\ pull_requests' = [pull_requests EXCEPT ![id] = Merge(@, now)]
                  /\ Finish(p, l, OK)
             ELSE /\ pull_requests' = pull_requests
                  /\ Finish(p, l, errPRNotFound)
    /\ UNCHANGED <<infra, teams, users, pr_reviewers, overtaken>>

\* Service.ClosePullRequest -> PRRepository.Close:
\* UPDATE ... SET status = 'CLOSED' WHERE id = $2 AND status = 'OPEN'
ClosePullRequest(p, id) ==
    /\ Enter(p)
    /\ LET l == [Blank EXCEPT !.op = "ClosePullRequest", !.pr = id] IN
       IF PRExists(id) /\ CloseWhere(pull_requests[id])
       THEN /\ pull_requests' = [pull_requests EXCEPT ![id].status = PRStatusClosed]
            /\ Finish(p, l, OK)
       ELSE /\ pull_requests' = pull_requests
            /\ Finish(p, l, errPRNotFoundOrFinal)
    /\ UNCHANGED <<infra, teams, users, pr_reviewers, clock, overtaken>>

\* ---------------------------------------------------------------- AddReviewer
\* PRRepository.GetByID, first statement: the row of pull_requests
AddReviewer_GetPR(p, prID, reviewerID) ==
    /\ Enter(p)
    /\ LET l == [Blank EXCEPT !.op = "AddReviewer", !.pr = prID, !.u = reviewerID] IN
       IF ~PRExists(prID)
       THEN Finish(p, l, errPRNotFound)
       ELSE Goto(p, [l EXCEPT !.status = pull_requests[prID].status,
                              !.author = pull_requests[prID].author_id], "ar_revs")
    /\ UNCHANGED <<infra, teams, users, pull_requests, pr_reviewers, clock, overtaken>>

AddReviewerCheck_NoAuthorCheck(status, reviewers, authorID, reviewerID) ==
    IF status = PRStatusMerged \/ status = PRStatusClosed THEN errAddToFinalPR
    ELSE IF reviewerID \in reviewers THEN errAlreadyAssigned
    ELSE OK

\* the checks of Service.AddReviewer on the PR it read, in the code's order
AddReviewerCheck(status, reviewers, authorID, reviewerID) ==
    IF status = PRStatusMerged \/ status = PRStatusClosed THEN errAddToFinalPR
    ELSE IF reviewerID \in reviewers THEN errAlreadyAssigned
    ELSE IF authorID = reviewerID THEN errAuthorCannotReview
    ELSE OK

\* PRRepository.GetByID, second statement (getReviewers), then the checks
AddReviewer_GetReviewers(p) ==
    /\ pc[p] = "ar_revs"
    /\ LET l == loc[p]
           e == AddReviewerCheck(l.status, getReviewers(l.pr), l.author, l.u)
       IN  IF e # OK THEN Finish(p, l, e) ELSE Goto(p, l, "ar_user")
    /\ UNCHANGED <<infra, teams, users, pull_requests, pr_reviewers, clock, calls, overtaken>>

\* Service.AddReviewer: userRepo.GetByID(reviewerID) and the IsActive check
AddReviewer_GetUser(p) ==
    /\ pc[p] = "ar_user"
    /\ LET l == loc[p] IN
       IF l.u \notin DOMAIN users THEN Finish(p, l, errReviewerNotFound)
       ELSE IF ~users[l.u].is_active THEN Finish(p, l, errReviewerInactive)
       ELSE Goto(p, l, "ar_insert")
    /\ UNCHANGED <<infra, teams, users, pull_requests, pr_reviewers, clock, calls, overtaken>>

\* PRRepository.AddReviewers: INSERT and COMMIT
AddReviewer_Insert(p) ==
    /\ pc[p] = "ar_insert"
    /\ LET l == loc[p] IN
       /\ ~RowLocked(p, l.pr, l.u)
       /\ IF PKConflict(l.pr, l.u)
          THEN /\ pr_reviewers' = pr_reviewers
               /\ overtaken' = overtaken
               /\ Finish(p, l, errAddReviewerFailed)
          ELSE /\ pr_reviewers' = addReviewersTx(pr_reviewers, l.pr, {l.u})
               /\ overtaken' = Overtake(p, l.op, l.pr, 0, l.u)
               /\ Finish(p, l, OK)
    /\ UNCHANGED <<infra, teams, users, pull_requests, clock, calls>>

\* ---------------------------------------------------------------- ReassignReviewer
\* PRRepository.GetByID, first statement: the row of pull_requests
ReassignReviewer_GetPR(p, prID, oldReviewerID) ==
    /\ Enter(p)
    /\ LET l == [Blank EXCEPT !.op = "ReassignReviewer", !.pr = prID, !.u = oldReviewerID] IN
       IF ~PRExists(prID)
       THEN Finish(p, l, errPRNotFound)
       ELSE Goto(p, [l EXCEPT !.status = pull_requests[prID].status,
                              !.author = pull_requests[prID].author_id], "rr_revs")
    /\ UNCHANGED <<infra, teams, users, pull_requests, pr_reviewers, clock, overtaken>>

ReassignCheck_NoTeamCheck(status, reviewers, oldReviewerID, teamID) ==
    IF status = PRStatusMerged THEN errMergedPR
    ELSE IF oldReviewerID \notin reviewers THEN errReviewerNotInPR
    ELSE OK

\* the checks of Service.ReassignReviewer on the PR it read, in the code's
\* order; teamID is the old reviewer's team_id as getReviewers joined it
ReassignCheck(status, reviewers, oldReviewerID, teamID) ==
    IF status = PRStatusMerged THEN errMergedPR
    ELSE IF oldReviewerID \notin reviewers THEN errReviewerNotInPR
    ELSE IF teamID = NULL THEN errReviewerNoTeam
    ELSE OK

\* PRRepository.GetByID, second statement (getReviewers), then the checks
ReassignReviewer_GetReviewers(p) ==
    /\ pc[p] = "rr_revs"
    /\ LET l == loc[p]
           reviewers == getReviewers(l.pr)
           teamID == IF l.u \in reviewers THEN users[l.u].team_id ELSE NULL
           e == ReassignCheck(l.status, reviewers, l.u, teamID)
       IN  IF e # OK
           THEN Finish(p, l, e)
           ELSE Goto(p, [l EXCEPT !.revs = reviewers, !.team = teamID], "rr_select")
    /\ UNCHANGED <<infra, teams, users, pull_requests, pr_reviewers, clock, calls, overtaken>>

\* Service.ReassignReviewer: selectRandomReviewer over the old reviewer's team
ReassignReviewer_Select(p) ==
    /\ pc[p] = "rr_select"
    /\ LET l == loc[p]
           filtered == selectRandomReviewer(l.team, l.author, l.revs)
       IN  IF filtered = {}
           THEN Finish(p, l, errNoAvailable)
           ELSE \E newReviewer \in filtered :
                   Goto(p, [l EXCEPT !.new = newReviewer], "rp_status")
    /\ UNCHANGED <<infra, teams, users, pull_requests, pr_reviewers, clock, calls, overtaken>>

\* ---------------------------------------------------------------- BulkDeactivateUsers
BulkContinue_Stop(p, l) == Finish(p, [l EXCEPT !.pr = 0, !.u = 0], OK)

\* the loops of Service.BulkDeactivateUsers move on: the next PR of the
\* current user, else the next user, else the call returns the two counts
BulkContinue(p, l) ==
    IF l.prs # <<>>
    THEN Goto(p, [l EXCEPT !.pr = Head(l.prs).id, !.author = Head(l.prs).author_id,
                           !.revs = Head(l.prs).reviewers, !.prs = Tail(l.prs),
                           !.new = 0, !.team = NULL], "bd_user")
    ELSE IF Len(l.ids) > 1
    THEN Goto(p, [l EXCEPT !.ids = Tail(l.ids), !.u = l.ids[2], !.pr = 0, !.author = 0,
                           !.revs = {}, !.new = 0, !.team = NULL], "bd_prs")
    ELSE Finish(p, [l EXCEPT !.pr = 0, !.u = 0], OK)

\* UserRepository.BulkDeactivate: UPDATE users SET is_active = false
\* WHERE team_id = $1 AND id IN (...) AND is_active = true
BulkDeactivate(rows, teamID, userIDs) ==
    [u \in DOMAIN rows |->
        IF rows[u].team_id = teamID /\ u \in userIDs /\ rows[u].is_active
        THEN [rows[u] EXCEPT !.is_active = FALSE]
        ELSE rows[u]]

Range(seq) == {seq[i] : i \in DOMAIN seq}

\* Service.BulkDeactivateUsers: userRepo.BulkDeactivate(teamID, req.UserIDs)
BulkDeactivateUsers_Update(p, teamID, userIDs) ==
    /\ Enter(p)
    /\ users' = BulkDeactivate(users, teamID, Range(userIDs))
    /\ LET affected == Cardinality({u \in DOMAIN users : users'[u] # users[u]}) IN
       Goto(p, [Blank EXCEPT !.op = "BulkDeactivateUsers", !.ids = userIDs,
                             !.u = Head(userIDs), !.deact = affected], "bd_prs")
    /\ UNCHANGED <<infra, teams, pull_requests, pr_reviewers, clock, overtaken>>

\* the ids selected by the first statement of GetOpenPRsWithReviewer,
\* ORDER BY created_at DESC
OpenPRsWithReviewer(reviewerID, n) ==
    LET hit(i) == /\ reviewerID \in UserIDs
                  /\ pr_reviewers[i][reviewerID] > 0
                  /\ pull_requests[i].status = PRStatusOpen
        F[k \in 0 .. n] ==
            IF k = 0 THEN <<>>
            ELSE IF hit(k) THEN <<k>> \o F[k - 1] ELSE F[k - 1]
    IN  F[n]

\* PRRepository.GetOpenPRsWithReviewer, first statement: the matching PR rows
BulkDeactivateUsers_GetPRs(p) ==
    /\ pc[p] = "bd_prs"
    /\ LET l == loc[p]
           ids == OpenPRsWithReviewer(l.u, Len(pull_requests))
       IN  IF ids = <<>>
           THEN BulkContinue(p, l)
           ELSE Goto(p, [l EXCEPT !.prq = ids], "bd_revs")
    /\ UNCHANGED <<infra, teams, users, pull_requests, pr_reviewers, clock, calls, overtaken>>

\* PRRepository.GetOpenPRsWithReviewer: getReviewers for the next row
BulkDeactivateUsers_GetReviewers(p) ==
    /\ pc[p] = "bd_revs"
    /\ LET l == loc[p]
           id == Head(l.prq)
           row == [id |-> id, author_id |-> pull_requests[id].author_id,
                   reviewers |-> getReviewers(id)]
           m == [l EXCEPT !.prq = Tail(l.prq), !.prs = Append(l.prs, row)]
       IN  IF m.prq # <<>> THEN Goto(p, m, "bd_revs") ELSE BulkContinue(p, m)
    /\ UNCHANGED <<infra, teams, users, pull_requests, pr_reviewers, clock, calls, overtaken>>

\* Service.BulkDeactivateUsers, per PR: userRepo.GetByID(userID)
BulkDeactivateUsers_GetUser(p) ==
    /\ pc[p] = "bd_user"
    /\ LET l == loc[p] IN
       IF l.u \notin DOMAIN users \/ users[l.u].team_id = NULL
       THEN BulkContinue(p, l)
       ELSE Goto(p, [l EXCEPT !.team = users[l.u].team_id], "bd_select")
    /\ UNCHANGED <<infra, teams, users, pull_requests, pr_reviewers, clock, calls, overtaken>>

\* Service.BulkDeactivateUsers, per PR: selectRandomReviewer
BulkDeactivateUsers_Select(p) ==
    /\ pc[p] = "bd_select"
    /\ LET l == loc[p]
           filtered == selectRandomReviewer(l.team, l.author, l.revs)
       IN  IF filtered = {}
           THEN BulkContinue(p, l)
           ELSE \E newReviewer \in filtered :
                   Goto(p, [l EXCEPT !.new = newReviewer], "rp_status")
    /\ UNCHANGED <<infra, teams, users, pull_requests, pr_reviewers, clock, calls, overtaken>>

\* ---------------------------------------------------------------- ReplaceReviewer
\* PRRepository.ReplaceReviewer returns e to its caller: ReassignReviewer
\* returns it, BulkDeactivateUsers counts a success and goes on
ReplaceReviewer_Return(p, e) ==
    LET l == loc[p] IN
    IF l.op = "ReassignReviewer"
    THEN Finish(p, l, e)
    ELSE BulkContinue(p, IF e = OK THEN [l EXCEPT !.reasg = @ + 1] ELSE l)

\* PRRepository.ReplaceReviewer: BEGIN and SELECT status FROM pull_requests
ReplaceReviewer_Status(p) ==
    /\ pc[p] = "rp_status"
    /\ IF pull_requests[loc[p].pr].status = PRStatusMerged
       THEN ReplaceReviewer_Return(p, errMergedPR)
       ELSE Goto(p, loc[p], "rp_delete")
    /\ UNCHANGED <<infra, teams, users, pull_requests, pr_reviewers, clock, calls, overtaken>>

\* PRRepository.ReplaceReviewer: DELETE FROM pr_reviewers, RowsAffected;
\* no row: the deferred Rollback ends the transaction
ReplaceReviewer_Delete(p) ==
    /\ pc[p] = "rp_delete"
    /\ ~RowLocked(p, loc[p].pr, loc[p].u)
    /\ IF pr_reviewers[loc[p].pr][loc[p].u] = 0
       THEN ReplaceReviewer_Return(p, errReviewerNotInPR)
       ELSE Goto(p, loc[p], "rp_insert")
    /\ UNCHANGED <<infra, teams, users, pull_requests, pr_reviewers, clock, calls, overtaken>>

ReplaceReviewer_DeleteOnly(rows, prID, oldReviewerID, newReviewerID) ==
    [rows EXCEPT ![prID] = [@ EXCEPT ![oldReviewerID] = 0]]

\* the rows of pr_reviewers once the transaction of ReplaceReviewer commits
ReplaceReviewer(rows, prID, oldReviewerID, newReviewerID) ==
    [rows EXCEPT ![prID] = [@ EXCEPT ![oldReviewerID] = 0, ![newReviewerID] = @ + 1]]

\* PRRepository.ReplaceReviewer: INSERT INTO pr_reviewers and COMMIT; a unique
\* violation rolls the DELETE back
ReplaceReviewer_Insert(p) ==
    /\ pc[p] = "rp_insert"
    /\ LET l == loc[p] IN
       /\ ~RowLocked(p, l.pr, l.new)
       /\ IF PKConflict(l.pr, l.new)
          THEN /\ pr_reviewers' = pr_reviewers
               /\ overtaken' = overtaken
               /\ ReplaceReviewer_Return(p, errAddNewFailed)
          ELSE /\ pr_reviewers' = ReplaceReviewer(pr_reviewers, l.pr, l.u, l.new)
               /\ overtaken' = Overtake(p, l.op, l.pr, l.u, l.new)
               /\ ReplaceReviewer_Return(p, OK)
    /\ UNCHANGED <<infra, teams, users, pull_requests, clock, calls>>

\* the handler has written the response; the goroutine's request is over
Respond(p) ==
    /\ pc[p] = "done"
    /\ pc' = [pc EXCEPT ![p] = "idle"]
    /\ res' = [res EXCEPT ![p] = NoResult]
    /\ overtaken' = [overtaken EXCEPT ![p] = "no"]
    /\ UNCHANGED <<infra, teams, users, pull_requests, pr_reviewers, clock, loc, calls>>

\* ---------------------------------------------------------------- specification
\* request arguments: every user id and one id that names no user; the
\* requests that change users name the last two users
ArgUserIDs == 1 .. NumUsers + 1
Changed    == {NumUsers - 1, NumUsers}
ArgLists   == {<<u>> : u \in Changed} \cup {<<NumUsers - 1, NumUsers>>}

Next ==
    \E p \in Procs :
        \/ \E id \in Changed, isActive \in BOOLEAN :
              UpdateUser(p, id, [Name |-> {}, IsActive |-> {isActive}])
        \/ \E t \in TeamIDs, u \in Changed : AddUserToTeam_Check(p, t, u)
        \/ AddUserToTeam_Update(p)
        \/ \E t \in TeamIDs, u \in Changed : RemoveUserFromTeam(p, t, u)
        \/ \E a \in ArgUserIDs : CreatePullRequest_GetAuthor(p, a)
        \/ CreatePullRequest_Select(p)
        \/ CreatePullRequest_Create(p)
        \/ \E id \in PRIDs : MergePullRequest(p, id)
        \/ \E id \in PRIDs : ClosePullRequest(p, id)
        \/ \E id \in PRIDs, r \in ArgUserIDs : AddReviewer_GetPR(p, id, r)
        \/ AddReviewer_GetReviewers(p)
        \/ AddReviewer_GetUser(p)
        \/ AddReviewer_Insert(p)
        \/ \E id \in PRIDs, old \in ArgUserIDs : ReassignReviewer_GetPR(p, id, old)
        \/ ReassignReviewer_GetReviewers(p)
        \/ ReassignReviewer_Select(p)
        \/ \E t \in TeamIDs, ids \in ArgLists : BulkDeactivateUsers_Update(p, t, ids)
        \/ BulkDeactivateUsers_GetPRs(p)
        \/ BulkDeactivateUsers_GetReviewers(p)
        \/ BulkDeactivateUsers_GetUser(p)
        \/ BulkDeactivateUsers_Select(p)
        \/ ReplaceReviewer_Status(p)
        \/ ReplaceReviewer_Delete(p)
        \/ ReplaceReviewer_Insert(p)
        \/ Respond(p)

Spec == Init /\ [][Next]_vars

\* ---------------------------------------------------------------- properties
\* request p runs, in this step, the one statement of the call op on PR id
Calls(p, op, id) ==
    /\ pc[p] = "idle"
    /\ pc'[p] = "done"
    /\ res'[p].op = op
    /\ res'[p].pr = id

\* request p's call of op returns in this step
Returns(p, op) == pc[p] # "done" /\ pc'[p] = "done" /\ res'[p].op = op

Status(id) == pull_requests[id].status

\* C1: the status of a PR changes only from OPEN, to MERGED by a
\* MergePullRequest and to CLOSED by a ClosePullRequest; MergePullRequest on a
\* CLOSED PR returns "PR not found" and leaves the PR CLOSED
C1_Step ==
    /\ \A id \in DOMAIN pull_requests :
          /\ id \in DOMAIN pull_requests'
          /\ pull_requests'[id].status # Status(id) =>
                /\ Status(id) = PRStatusOpen
                /\ \E p \in Procs :
                      \/ /\ Calls(p, "MergePullRequest", id)
                         /\ pull_requests'[id].status = PRStatusMerged
                      \/ /\ Calls(p, "ClosePullRequest", id)
                         /\ pull_requests'[id].status = PRStatusClosed
    /\ \A p \in Procs, id \in DOMAIN pull_requests :
          Calls(p, "MergePullRequest", id) /\ Status(id) = PRStatusClosed =>
             /\ res'[p].err = errPRNotFound
             /\ pull_requests' = pull_requests

C1_StatusTransitions == [][C1_Step]_vars

C1_Witness ==
    \E p \in Procs :
        /\ pc[p] = "done"
        /\ res[p].op = "MergePullRequest"
        /\ res[p].err = errPRNotFound
        /\ PRExists(res[p].pr)
        /\ Status(res[p].pr) = PRStatusClosed

\* C2: MergePullRequest on a PR that is already MERGED succeeds and leaves
\* the row, merged_at included, as the first merge wrote it
C2_Step ==
    \A p \in Procs, id \in DOMAIN pull_requests :
        Calls(p, "MergePullRequest", id) /\ Status(id) = PRStatusMerged =>
           /\ res'[p].err = OK
           /\ pull_requests'[id] = pull_requests[id]

C2_MergeIdempotent == [][C2_Step]_vars

\* the reviewers of PR id in the rows of pr_reviewers
Reviewers(rows, id) == {u \in UserIDs : rows[id][u] > 0}

\* the active users of a team other than one user
Eligible(teamID, authorID) ==
    {u \in DOMAIN users :
        users[u].is_active /\ users[u].team_id = teamID /\ u # authorID}

\* C3: CreatePullRequest for an existing author selects min(N, 2) reviewers,
\* N the number of active users of the author's team other than the author
\* (none when the author has no team), all of them such users, and creates an
\* OPEN PR of the author with exactly these reviewers, one row each
C3_Step ==
    \A p \in Procs :
        /\ pc[p] = "idle" /\ loc'[p].op = "CreatePullRequest" =>
              /\ loc'[p].sel = {}
              /\ loc'[p].author \in DOMAIN users /\ users[loc'[p].author].team_id = NULL
                    => pc'[p] = "cpr_create"
        /\ pc[p] = "cpr_select" /\ pc'[p] # "cpr_select" =>
              LET pool == Eligible(loc[p].team, loc[p].author) IN
              /\ pc'[p] = "cpr_create"
              /\ loc'[p].sel \subseteq pool
              /\ Cardinality(loc'[p].sel) = Min(Cardinality(pool), 2)
        /\ pc[p] = "cpr_create" /\ pc'[p] # "cpr_create" =>
              LET id == Len(pull_requests) + 1 IN
              /\ pc'[p] = "done" /\ res'[p].err = OK /\ res'[p].pr = id
              /\ Len(pull_requests') = id
              /\ pull_requests'[id].status = PRStatusOpen
              /\ pull_requests'[id].author_id = loc[p].author
              /\ \A u \in UserIDs :
                    pr_reviewers'[id][u] = IF u \in loc[p].sel THEN 1 ELSE 0

C3_CreateAssignsReviewers == [][C3_Step]_vars

C3_Witness ==
    \E p \in Procs :
        /\ pc[p] = "done"
        /\ res[p].op = "CreatePullRequest"
        /\ res[p].err = OK
        /\ LET a == pull_requests[res[p].pr].author_id IN
           /\ Cardinality(Eligible(users[a].team_id, a)) = 3
           /\ users[a].team_id # NULL
           /\ Cardinality(Reviewers(pr_reviewers, res[p].pr)) = 2

\* C4: no PR has two reviewer rows of one user or a reviewer row of its author
C4_ReviewersUniqueNotAuthor ==
    \A id \in DOMAIN pull_requests :
        /\ \A u \in UserIDs : pr_reviewers[id][u] <= 1
        /\ pr_reviewers[id][pull_requests[id].author_id] = 0

\* two AddReviewer calls raced for one reviewer and the second was refused
C4_Witness ==
    \E p \in Procs :
        /\ pc[p] = "done"
        /\ res[p].op = "AddReviewer"
        /\ res[p].err = errAddReviewerFailed
        /\ pr_reviewers[res[p].pr][res[p].u] = 1

\* request p is inside PRRepository.ReplaceReviewer
InReplace(p) == pc[p] \in {"rp_status", "rp_delete", "rp_insert"}

\* request p, inside ReassignReviewer, takes this step
ReassignStep(p) == loc[p].op = "ReassignReviewer" /\ (pc'[p] # pc[p] \/ loc'[p] # loc[p])

\* the rows of PR id change by old's row going and new's row coming, only
Swapped(id, old, new) ==
    /\ pr_reviewers[id][old] = 1 /\ pr_reviewers'[id][old] = 0
    /\ pr_reviewers[id][new] = 0 /\ pr_reviewers'[id][new] = 1
    /\ \A u \in UserIDs \ {old, new} : pr_reviewers'[id][u] = pr_reviewers[id][u]
    /\ \A i \in PRIDs \ {id} : pr_reviewers'[i] = pr_reviewers[i]

\* the part of C5 that holds: a step of ReassignReviewer changes the
\* committed rows of pr_reviewers only by its COMMIT, which removes the old
\* reviewer's row and adds the new reviewer's row together, so that every
\* state has as many reviewers as the one before; the call then returns nil
C5_AtomicStep ==
    \A p \in Procs :
        ReassignStep(p) =>
           \/ pr_reviewers' = pr_reviewers /\ ~(pc'[p] = "done" /\ res'[p].err = OK)
           \/ /\ pc[p] = "rp_insert" /\ pc'[p] = "done" /\ res'[p].err = OK
              /\ Swapped(loc[p].pr, loc[p].u, loc[p].new)
              /\ Cardinality(Reviewers(pr_reviewers', loc[p].pr))
                    = Cardinality(Reviewers(pr_reviewers, loc[p].pr))

\* C5 as claimed: ReassignReviewer is atomic, and of concurrent calls that
\* name the same PR and old reviewer at most one succeeds
C5_Claimed_Step ==
    /\ C5_AtomicStep
    /\ \A p \in Procs :
          Returns(p, "ReassignReviewer") /\ res'[p].err = OK => overtaken[p] = "no"

C5_Claimed == [][C5_Claimed_Step]_vars

\* C5 as amended: ReassignReviewer is atomic, and a call succeeds after a
\* concurrent call naming the same PR and old reviewer has succeeded only if
\* the old reviewer was inserted into the PR again in between
C5_Amended_Step ==
    /\ C5_AtomicStep
    /\ \A p \in Procs :
          Returns(p, "ReassignReviewer") /\ res'[p].err = OK => overtaken[p] # "overtaken"

C5_ReassignAtomic == [][C5_Amended_Step]_vars

\* two concurrent calls named the same old reviewer; one has committed and
\* the other has been refused
C5_Witness ==
    \E p, q \in Procs :
        /\ p # q
        /\ pc[p] = "done" /\ res[p].op = "ReassignReviewer" /\ res[p].err = OK
        /\ pc[q] = "done" /\ res[q].op = "ReassignReviewer"
        /\ res[q].err = errReviewerNotInPR
        /\ res[q].u = res[p].u /\ res[q].pr = res[p].pr
        /\ overtaken[q] = "overtaken"

\* C6: AddReviewer inserts a reviewer row only while the persisted status
\* of the PR is OPEN; for a MERGED or CLOSED PR it returns "cannot add
\* reviewers to merged or closed PR" and inserts nothing
C6_Step ==
    \A p \in Procs :
        /\ loc[p].op = "AddReviewer" /\ pr_reviewers' # pr_reviewers =>
              Status(loc[p].pr) = PRStatusOpen
        /\ pc[p] = "ar_insert" /\ pc'[p] # "ar_insert"
              /\ Status(loc[p].pr) # PRStatusOpen =>
                 /\ pr_reviewers' = pr_reviewers
                 /\ res'[p].err = errAddToFinalPR

C6_AddReviewerOnlyWhileOpen == [][C6_Step]_vars

\* C7 as claimed: AddReviewer naming the PR's author returns "author cannot
\* be a reviewer" whatever the status is, and inserts nothing
C7_Claimed_Step ==
    \A p \in Procs :
        pc[p] = "ar_revs" /\ pc'[p] # "ar_revs" /\ loc[p].u = loc[p].author =>
           /\ pr_reviewers' = pr_reviewers
           /\ pc'[p] = "done"
           /\ res'[p].err = errAuthorCannotReview

C7_Claimed == [][C7_Claimed_Step]_vars

\* C7 as amended: AddReviewer naming the PR's author always fails and inserts
\* nothing; it returns "author cannot be a reviewer" when the status it read
\* is OPEN and "cannot add reviewers to merged or closed PR" otherwise
C7_Amended_Step ==
    \A p \in Procs :
        /\ pc[p] = "ar_revs" /\ pc'[p] # "ar_revs" /\ loc[p].u = loc[p].author =>
              /\ pr_reviewers' = pr_reviewers
              /\ pc'[p] = "done"
              /\ res'[p].err = IF loc[p].status = PRStatusOpen
                               THEN errAuthorCannotReview
                               ELSE errAddToFinalPR
        /\ Returns(p, "AddReviewer") /\ PRExists(res'[p].pr)
              /\ res'[p].u = pull_requests[res'[p].pr].author_id =>
                 res'[p].err # OK /\ pr_reviewers' = pr_reviewers

C7_AuthorCannotReview == [][C7_Amended_Step]_vars

C7_Witness ==
    \E p \in Procs :
        /\ pc[p] = "done"
        /\ res[p].op = "AddReviewer"
        /\ PRExists(res[p].pr)
        /\ res[p].u = pull_requests[res[p].pr].author_id
        /\ Status(res[p].pr) = PRStatusMerged
        /\ res[p].err = errAddToFinalPR

\* C8: ClosePullRequest succeeds exactly on an OPEN PR, which it makes
\* CLOSED; on a MERGED, a CLOSED or an unknown PR it fails and changes no row;
\* a PR that is not OPEN never is OPEN again, so of all the calls for one PR
\* at most one succeeds
C8_Step ==
    /\ \A p \in Procs, id \in PRIDs :
          Calls(p, "ClosePullRequest", id) =>
             IF PRExists(id) /\ Status(id) = PRStatusOpen
             THEN /\ res'[p].err = OK
                  /\ pull_requests' = [pull_requests EXCEPT ![id].status = PRStatusClosed]
             ELSE /\ res'[p].err = errPRNotFoundOrFinal
                  /\ pull_requests' = pull_requests
    /\ \A id \in DOMAIN pull_requests :
          Status(id) # PRStatusOpen => pull_requests'[id].status # PRStatusOpen

C8_CloseOnlyOpen == [][C8_Step]_vars

\* two ClosePullRequest calls for one PR: one succeeded, the other failed
C8_Witness ==
    \E p, q \in Procs :
        /\ pc[p] = "done" /\ res[p].op = "ClosePullRequest" /\ res[p].err = OK
        /\ pc[q] = "done" /\ res[q].op = "ClosePullRequest"
        /\ res[q].err = errPRNotFoundOrFinal
        /\ res[q].pr = res[p].pr
        /\ Status(res[p].pr) = PRStatusClosed

\* request p's call returns e in this step
Fails(p, e) == pc'[p] = "done" /\ res'[p].err = e

\* C9: ReassignReviewer returns "cannot change reviewers of merged PR" for a
\* MERGED PR, else "reviewer not found in PR" when the old reviewer is none
\* of the PR's reviewers, else "reviewer is not in a team" when the old
\* reviewer has no team, else "no available reviewers in team" when no active
\* member of that team other than the author and the reviewers exists; a
\* failing call leaves the rows of pr_reviewers as they were
C9_Step ==
    \A p \in Procs :
        /\ pc[p] = "idle" /\ pc'[p] = "rr_revs" =>
              loc'[p].status = Status(loc'[p].pr)
        /\ pc[p] = "rr_revs" /\ pc'[p] # "rr_revs" =>
              IF loc[p].status = PRStatusMerged THEN Fails(p, errMergedPR)
              ELSE IF loc[p].u \notin Reviewers(pr_reviewers, loc[p].pr)
              THEN Fails(p, errReviewerNotInPR)
              ELSE IF users[loc[p].u].team_id = NULL THEN Fails(p, errReviewerNoTeam)
              ELSE pc'[p] = "rr_select"
        /\ pc[p] = "rr_select" /\ pc'[p] # "rr_select" =>
              IF Eligible(loc[p].team, loc[p].author) \ loc[p].revs = {}
              THEN Fails(p, errNoAvailable)
              ELSE pc'[p] = "rp_status"
        /\ Returns(p, "ReassignReviewer") /\ res'[p].err # OK =>
              pr_reviewers' = pr_reviewers

C9_ReassignErrors == [][C9_Step]_vars

\* a call naming a reviewer who has left the team was refused
C9_Witness ==
    \E p \in Procs :
        /\ pc[p] = "done"
        /\ res[p].op = "ReassignReviewer"
        /\ res[p].err = errReviewerNoTeam
        /\ res[p].u \in Reviewers(pr_reviewers, res[p].pr)
        /\ users[res[p].u].team_id = NULL

\* C10: ReassignReviewer chooses an active member of the old reviewer's team
\* who is neither the author nor a reviewer of the PR, and its success
\* replaces the old reviewer's row by the chosen user's, who had no row, and
\* changes no other reviewer row, no PR row and no user
C10_Step ==
    \A p \in Procs :
        loc[p].op = "ReassignReviewer" =>
           /\ pc[p] = "rr_revs" /\ pc'[p] = "rr_select" =>
                 /\ loc'[p].revs = Reviewers(pr_reviewers, loc[p].pr)
                 /\ loc'[p].team = users[loc[p].u].team_id
                 /\ loc'[p].author = pull_requests[loc[p].pr].author_id
           /\ pc[p] = "rr_select" /\ pc'[p] = "rp_status" =>
                 /\ loc'[p].new \in DOMAIN users
                 /\ users[loc'[p].new].is_active
                 /\ users[loc'[p].new].team_id = loc[p].team
                 /\ loc'[p].new # loc[p].author
                 /\ loc'[p].new \notin loc[p].revs
           /\ pc'[p] = "done" /\ pc[p] # "done" /\ res'[p].err = OK =>
                 /\ pc[p] = "rp_insert"
                 /\ Swapped(loc[p].pr, loc[p].u, loc[p].new)
                 /\ loc[p].new # pull_requests[loc[p].pr].author_id
                 /\ pull_requests' = pull_requests
                 /\ users' = users

C10_ReassignReplacesOne == [][C10_Step]_vars

C10_Witness ==
    \E p \in Procs :
        /\ pc[p] = "done"
        /\ res[p].op = "ReassignReviewer"
        /\ res[p].err = OK
        /\ res[p].u \notin Reviewers(pr_reviewers, res[p].pr)
        /\ Cardinality(Reviewers(pr_reviewers, res[p].pr)) = 2

\* C11: once a PR is MERGED no step of any request adds or removes a row of
\* its reviewers
C11_Step ==
    \A id \in DOMAIN pull_requests :
        Status(id) = PRStatusMerged => pr_reviewers'[id] = pr_reviewers[id]

C11_MergedReviewersFrozen == [][C11_Step]_vars

\* C12: a ReassignReviewer call that read its PR as CLOSED never commits a
\* replacement: the replacement step returns "cannot change reviewers of
\* merged PR" (InvalidState) and leaves the rows of pr_reviewers as they were
C12_Step ==
    \A p \in Procs :
        /\ loc[p].op = "ReassignReviewer"
        /\ loc[p].status = PRStatusClosed
        /\ pc[p] = "rp_insert"
        /\ pc'[p] # "rp_insert"
        => /\ Fails(p, errMergedPR)
           /\ pr_reviewers' = pr_reviewers

C12_ClosedReviewersFrozen == [][C12_Step]_vars

\* C13: every row of pr_reviewers a step inserts names a user who is active
\* when the step commits
C13_Step ==
    \A id \in PRIDs, u \in UserIDs :
        pr_reviewers'[id][u] > pr_reviewers[id][u] => users'[u].is_active

C13_OnlyActiveAssigned == [][C13_Step]_vars

\* ---------------------------------------------------------------- bulk deactivation
\* One BulkDeactivateUsers request served on its own, over a store of
\* BulkPRs pull requests, for lists of up to BulkListLen users and for the
\* team of the users as well as a team none of them belongs to.
BulkPRs     == 2
BulkListLen == 3

ArgTeamIDs == TeamIDs \cup {2}
BulkLists  == {[i \in 1 .. n |-> i] : n \in 1 .. BulkListLen}

\* the store earlier requests have left: PRs by the last two users, OPEN or
\* CLOSED, reviewed by up to MaxReviewers users other than the author
InitBulk ==
    /\ teams = InitialTeams
    /\ users \in [UserIDs -> [name : {InitialName}, is_active : BOOLEAN,
                                team_id : TeamIDs \cup {NULL}]]
    /\ users[1].team_id = 1
    /\ users[NumUsers] = [name |-> InitialName, is_active |-> TRUE, team_id |-> 1]
    /\ pull_requests \in [1 .. BulkPRs ->
                            [author_id : Changed,
                             status : {PRStatusOpen, PRStatusClosed},
                             merged_at : {NULL}]]
    /\ pull_requests[BulkPRs].status = PRStatusOpen
    /\ pr_reviewers \in [1 .. BulkPRs -> [UserIDs -> 0 .. 1]]
    /\ \A id \in 1 .. BulkPRs :
          /\ pr_reviewers[id][pull_requests[id].author_id] = 0
          /\ Cardinality({u \in UserIDs : pr_reviewers[id][u] > 0}) <= MaxReviewers
    /\ clock = 1
    /\ pc = [p \in Procs |-> "idle"]
    /\ loc = [p \in Procs |-> Blank]
    /\ res = [p \in Procs |-> NoResult]
    /\ calls = MaxCalls - 1
    /\ overtaken = [p \in Procs |-> "no"]
    /\ InfraUnused

NextBulk ==
    \E p \in Procs :
        \/ \E t \in ArgTeamIDs, ids \in BulkLists : BulkDeactivateUsers_Update(p, t, ids)
        \/ BulkDeactivateUsers_GetPRs(p)
        \/ BulkDeactivateUsers_GetReviewers(p)
        \/ BulkDeactivateUsers_GetUser(p)
        \/ BulkDeactivateUsers_Select(p)
        \/ ReplaceReviewer_Status(p)
        \/ ReplaceReviewer_Delete(p)
        \/ ReplaceReviewer_Insert(p)
        \/ Respond(p)

SpecBulk == InitBulk /\ [][NextBulk]_vars

\* request p, serving BulkDeactivateUsers, takes this step
BulkStep(p) ==
    /\ pc'[p] # pc[p] \/ loc'[p] # loc[p]
    /\ loc[p].op = "BulkDeactivateUsers" \/ loc'[p].op = "BulkDeactivateUsers"

\* the reassignedCount of request p before and after the step
Reassigned(p) == loc[p].reasg
ReassignedAfter(p) == IF pc'[p] = "done" THEN res'[p].reasg ELSE loc'[p].reasg

\* the step commits a replacement in PR id
Replaced(id) == id \in DOMAIN pull_requests /\ pr_reviewers'[id] # pr_reviewers[id]

\* the deactivatedCount of request p after the step
DeactivatedAfter(p) == IF pc'[p] = "done" THEN res'[p].deact ELSE loc'[p].deact

\* the users the step flips from active to inactive
Flipped == {u \in UserIDs : users[u].is_active /\ ~users'[u].is_active}

\* C14: BulkDeactivateUsers(teamId, userIds) flips exactly the listed active
\* members of teamId and returns their number as deactivatedCount; its
\* reassignedPRCount grows by one exactly in the steps that commit a
\* replacement for a deactivated user, and not otherwise
C14_Step ==
    \A p \in Procs :
        BulkStep(p) =>
           IF pc[p] = "idle"
           THEN /\ \E t \in ArgTeamIDs :
                      Flipped = {u \in Range(loc'[p].ids) \cap UserIDs :
                                    users[u].team_id = t /\ users[u].is_active}
                /\ \A u \in UserIDs \ Flipped : users'[u] = users[u]
                /\ DeactivatedAfter(p) = Cardinality(Flipped)
                /\ ReassignedAfter(p) = 0
           ELSE /\ users' = users
                /\ DeactivatedAfter(p) = loc[p].deact
                /\ ReassignedAfter(p) =
                      IF Replaced(loc[p].pr) /\ ~users[loc[p].u].is_active
                      THEN Reassigned(p) + 1
                      ELSE Reassigned(p)

C14_BulkCounts == [][C14_Step]_vars

\* C15: BulkDeactivateUsers deactivates listed members of teamId only, and
\* removes from a reviewer set, and counts as reassigned, only a listed user
\* who is deactivated: a listed user who is still active keeps every
\* assignment, and so does every user who is not listed
C15_Step ==
    \A p \in Procs :
        BulkStep(p) =>
           /\ pc[p] = "idle" =>
                 \E t \in ArgTeamIDs :
                    \A u \in UserIDs :
                       users'[u] # users[u] =>
                          u \in Range(loc'[p].ids) /\ users[u].team_id = t
           /\ pc[p] # "idle" =>
                 /\ \A id \in DOMAIN pull_requests, u \in UserIDs :
                       pr_reviewers[id][u] > 0 /\ pr_reviewers'[id][u] = 0 =>
                          u \in Range(loc[p].ids) /\ ~users[u].is_active
                 /\ ReassignedAfter(p) > Reassigned(p) => ~users[loc[p].u].is_active

C15_BulkFrame == [][C15_Step]_vars

\* the loops of BulkDeactivateUsers have nothing left to process
BulkProcessed(l) == l.prq = <<>> /\ l.prs = <<>> /\ Len(l.ids) = 1

\* C16: when BulkDeactivateUsers finds no replacement for a user in a PR it
\* changes no row and no count and goes on with the next PR of that user,
\* else with the next listed user; it returns, without error, only when no
\* listed user and no PR is left, and after its first statement it changes
\* no user, so a deactivated user stays deactivated
C16_Step ==
    \A p \in Procs :
        BulkStep(p) =>
           /\ pc[p] = "bd_select"
                 /\ Eligible(loc[p].team, loc[p].author) \ loc[p].revs = {} =>
                    /\ pr_reviewers' = pr_reviewers
                    /\ ReassignedAfter(p) = Reassigned(p)
                    /\ IF loc[p].prs # <<>>
                       THEN /\ pc'[p] = "bd_user"
                            /\ loc'[p].u = loc[p].u
                            /\ loc'[p].pr = Head(loc[p].prs).id
                            /\ loc'[p].prs = Tail(loc[p].prs)
                       ELSE IF Len(loc[p].ids) > 1
                       THEN /\ pc'[p] = "bd_prs"
                            /\ loc'[p].u = loc[p].ids[2]
                            /\ loc'[p].ids = Tail(loc[p].ids)
                       ELSE pc'[p] = "done"
           /\ pc'[p] = "done" => res'[p].err = OK /\ BulkProcessed(loc[p])
           /\ pc[p] # "idle" => users' = users

C17_Step ==
    \A p \in Procs :
        BulkStep(p) /\ pc'[p] = "done" =>
           \/ res'[p].deact = 0 /\ res'[p].reasg = 0
           \/ ~users'[loc[p].u].is_active /\ users'[loc[p].u].team_id # NULL =>
                 \A id \in DOMAIN pull_requests :
                    Status(id) = PRStatusOpen => pr_reviewers'[id][loc[p].u] = 0

C17_BulkAllOrNothing == [][C17_Step]_vars

\* ---------------------------------------------------------------- PRRepository.Create
\* PRRepository.Create statement by statement.  The rows its transaction has
\* written are in the request's locals (pr: the id RETURNING gave, revs: the
\* reviewer rows inserted so far) and reach the tables, which hold what other
\* requests can read, at COMMIT; Spec takes the whole transaction as the one
\* step CreatePullRequest_Create.

\* BEGIN; INSERT INTO pull_requests ... RETURNING id
Create_InsertPR(p) ==
    /\ pc[p] = "cpr_create"
    /\ Goto(p, [loc[p] EXCEPT !.pr = Len(pull_requests) + 1, !.revs = {}],
            IF loc[p].sel = {} THEN "cpr_commit" ELSE "cpr_rows")
    /\ UNCHANGED <<infra, teams, users, pull_requests, pr_reviewers, clock, calls, overtaken>>

\* addReviewersTx: stmt.Exec for the next reviewer; an error returns through
\* the deferred tx.Rollback()
Create_InsertReviewer(p) ==
    /\ pc[p] = "cpr_rows"
    /\ \E reviewer \in loc[p].sel \ loc[p].revs, failed \in BOOLEAN :
          IF failed
          THEN Finish(p, [loc[p] EXCEPT !.pr = 0], errAddReviewerFailed)
          ELSE LET l == [loc[p] EXCEPT !.revs = @ \cup {reviewer}]
               IN  Goto(p, l, IF l.revs = l.sel THEN "cpr_commit" ELSE "cpr_rows")
    /\ UNCHANGED <<infra, teams, users, pull_requests, pr_reviewers, clock, calls, overtaken>>

\* tx.Commit(): the PR row and the reviewer rows become visible together; the
\* row's SERIAL id is modelled as its position among the committed rows
Create_Commit(p) ==
    /\ pc[p] = "cpr_commit"
    /\ pull_requests' = Append(pull_requests,
           [author_id |-> loc[p].author, status |-> PRStatusOpen, merged_at |-> NULL])
    /\ pr_reviewers' = addReviewersTx(pr_reviewers, Len(pull_requests) + 1, loc[p].revs)
    /\ Finish(p, [loc[p] EXCEPT !.pr = Len(pull_requests) + 1], OK)
    /\ UNCHANGED <<infra, teams, users, clock, calls, overtaken>>

NextCreate ==
    \E p \in Procs :
        \/ \E id \in Changed, isActive \in BOOLEAN :
              UpdateUser(p, id, [Name |-> {}, IsActive |-> {isActive}])
        \/ \E a \in ArgUserIDs : CreatePullRequest_GetAuthor(p, a)
        \/ CreatePullRequest_Select(p)
        \/ Create_InsertPR(p)
        \/ Create_InsertReviewer(p)
        \/ Create_Commit(p)
        \/ Respond(p)

SpecCreate == Init /\ [][NextCreate]_vars

\* C18: the PR row becomes visible only in the step that commits
\* PRRepository.Create, together with one row for every reviewer the call
\* selected; no other step of a CreatePullRequest call changes a table, so a
\* call whose reviewer insert fails leaves neither a PR row nor a reviewer row
C18_Step ==
    /\ \A p \in Procs :
          (pc'[p] # pc[p] \/ loc'[p] # loc[p]) /\ loc[p].op = "CreatePullRequest" =>
             IF pc'[p] = "done" /\ res'[p].err = OK
             THEN LET id == Len(pull_requests) + 1 IN
                  /\ Len(pull_requests') = id
                  /\ \A i \in DOMAIN pull_requests : pull_requests'[i] = pull_requests[i]
                  /\ pull_requests'[id].author_id = loc[p].author
                  /\ pull_requests'[id].status = PRStatusOpen
                  /\ res'[p].pr = id
                  /\ \A u \in UserIDs :
                        pr_reviewers'[id][u] = IF u \in loc[p].sel THEN 1 ELSE 0
                  /\ \A i \in PRIDs \ {id} : pr_reviewers'[i] = pr_reviewers[i]
             ELSE /\ pull_requests' = pull_requests
                  /\ pr_reviewers' = pr_reviewers
    /\ Len(pull_requests') # Len(pull_requests) =>
          \E p \in Procs : loc[p].op = "CreatePullRequest" /\ pc'[p] = "done"

C18_CreateAtomic == [][C18_Step]_vars

\* a call has failed on a reviewer row, and no PR row and no reviewer row exists
C18_Witness ==
    \E p \in Procs :
        /\ pc[p] = "done"
        /\ res[p].op = "CreatePullRequest"
        /\ res[p].err = errAddReviewerFailed
        /\ pull_requests = <<>>
        /\ \A id \in PRIDs, u \in UserIDs : pr_reviewers[id][u] = 0

\* C19: a CreatePullRequest call whose authorId names no user returns
\* "author not found" in its first step and adds no PR row and no reviewer
\* row; a call whose author exists never returns that error
C19_Step ==
    \A p \in Procs :
        /\ pc[p] = "idle"
        /\ loc'[p].op = "CreatePullRequest"
              \/ (pc'[p] = "done" /\ res'[p].op = "CreatePullRequest")
        => LET authorID == IF pc'[p] = "done" THEN res'[p].u ELSE loc'[p].author IN
           IF authorID \notin DOMAIN users
           THEN /\ Fails(p, errAuthorNotFound)
                /\ pull_requests' = pull_requests
                /\ pr_reviewers' = pr_reviewers
           ELSE pc'[p] # "done"

C19_CreateUnknownAuthor == [][C19_Step]_vars

C19_Witness ==
    \E p \in Procs :
        /\ pc[p] = "done"
        /\ res[p].op = "CreatePullRequest"
        /\ res[p].u \notin DOMAIN users
        /\ res[p].err = errAuthorNotFound
        /\ pull_requests = <<>>

\* ---------------------------------------------------------------- teams
\* CreateTeamRequest.Name
TeamNames == {"backend", "frontend"}

errTeamExists       == "team with name already exists"
errCreateTeamFailed == "failed to create team"

\* TeamRepository.GetByName: the row WHERE name = $1, if any
GetByName(name) == {t \in teams : t.name = name}

\* Service.CreateTeam: teamRepo.GetByName(req.Name) and the existing != nil check
CreateTeam_GetByName(p, name) ==
    /\ Enter(p)
    /\ LET l == [Blank EXCEPT !.op = "CreateTeam", !.name = name] IN
       IF GetByName(name) # {}
       THEN Finish(p, l, errTeamExists)
       ELSE Goto(p, l, "ct_create")
    /\ UNCHANGED <<infra, teams, users, pull_requests, pr_reviewers, clock, overtaken>>

UniqueViolation_NoConstraint(name) == FALSE

\* teams.name VARCHAR(100) NOT NULL UNIQUE: an INSERT of a stored name fails
UniqueViolation(name) == \E t \in teams : t.name = name

\* id SERIAL: an id no row has had
NextTeamID == Cardinality(teams) + 1

\* TeamRepository.Create: INSERT INTO teams (name) VALUES ($1) RETURNING id
CreateTeam_Create(p) ==
    /\ pc[p] = "ct_create"
    /\ IF UniqueViolation(loc[p].name)
       THEN /\ teams' = teams
            /\ Finish(p, loc[p], errCreateTeamFailed)
       ELSE /\ teams' = teams \cup {[id |-> NextTeamID, name |-> loc[p].name]}
            /\ Finish(p, loc[p], OK)
    /\ UNCHANGED <<infra, users, pull_requests, pr_reviewers, clock, calls, overtaken>>

\* the teams earlier CreateTeam requests have stored; no PR yet
InitTeams ==
    /\ teams \in {{}, {[id |-> 1, name |-> "backend"]},
                  {[id |-> 1, name |-> "backend"], [id |-> 2, name |-> "frontend"]},
                  {[id |-> 1, name |-> "frontend"]}}
    /\ users = [u \in UserIDs |->
                    [name |-> InitialName, is_active |-> TRUE, team_id |-> NULL]]
    /\ pull_requests = <<>>
    /\ pr_reviewers = [i \in PRIDs |-> [u \in UserIDs |-> 0]]
    /\ clock = 1
    /\ pc = [p \in Procs |-> "idle"]
    /\ loc = [p \in Procs |-> Blank]
    /\ res = [p \in Procs |-> NoResult]
    /\ calls = 0
    /\ overtaken = [p \in Procs |-> "no"]
    /\ InfraUnused

NextTeams ==
    \E p \in Procs :
        \/ \E name \in TeamNames : CreateTeam_GetByName(p, name)
        \/ CreateTeam_Create(p)
        \/ Respond(p)

SpecTeams == InitTeams /\ [][NextTeams]_vars

\* no two rows of teams have the same name
UniqueNames(rows) == \A t1, t2 \in rows : t1.name = t2.name => t1 = t2

\* C20: no two stored teams ever have the same name; a CreateTeam call that
\* finds a team of its name returns "team with name ... already exists" and
\* adds no row; a call adds at most one row, of its own name, and a call that
\* fails adds none
C20_Step ==
    /\ UniqueNames(teams)
    /\ UniqueNames(teams')
    /\ \A p \in Procs :
          /\ pc[p] = "idle"
                /\ (loc'[p].op = "CreateTeam" \/ res'[p].op = "CreateTeam") =>
                   LET name == IF pc'[p] = "done" THEN res'[p].name ELSE loc'[p].name IN
                   /\ teams' = teams
                   /\ IF \E t \in teams : t.name = name
                      THEN Fails(p, errTeamExists)
                      ELSE pc'[p] = "ct_create"
          /\ pc[p] = "ct_create" /\ pc'[p] # "ct_create" =>
                IF res'[p].err = OK
                THEN /\ \A t \in teams : t.name # loc[p].name
                     /\ \E t \in teams' \ teams :
                           t.name = loc[p].name /\ teams' = teams \cup {t}
                ELSE teams' = teams

C20_TeamNamesUnique == [][C20_Step]_vars

\* two concurrent CreateTeam calls of one name: one has stored the team, the
\* other, which had found no team of that name, was refused by the store
C20_Witness ==
    \E p, q \in Procs :
        /\ pc[p] = "done" /\ res[p].op = "CreateTeam" /\ res[p].err = OK
        /\ pc[q] = "done" /\ res[q].op = "CreateTeam"
        /\ res[q].err = errCreateTeamFailed
        /\ res[q].name = res[p].name
        /\ Cardinality({t \in teams : t.name = res[p].name}) = 1

\* ---------------------------------------------------------------- teams and their members
NewName == "bob"

\* Service.DeleteTeam: teamRepo.GetByID(id)
DeleteTeam_GetByID(p, id) ==
    /\ Enter(p)
    /\ LET l == [Blank EXCEPT !.op = "DeleteTeam", !.team = id] IN
       IF ~TeamExists(id)
       THEN Finish(p, l, errTeamNotFound)
       ELSE Goto(p, l, "dt_detach")
    /\ UNCHANGED <<infra, teams, users, pull_requests, pr_reviewers, clock, overtaken>>

\* the rows of users after UPDATE users SET team_id = NULL WHERE team_id = $1
Detach(rows, id) ==
    [u \in DOMAIN rows |->
        IF rows[u].team_id = id THEN [rows[u] EXCEPT !.team_id = NULL] ELSE rows[u]]

\* TeamRepository.Delete, first statement
DeleteTeam_Detach(p) ==
    /\ pc[p] = "dt_detach"
    /\ users' = Detach(users, loc[p].team)
    /\ Goto(p, loc[p], "dt_delete")
    /\ UNCHANGED <<infra, teams, pull_requests, pr_reviewers, clock, calls, overtaken>>

\* users.team_id ... ON DELETE SET NULL: what deleting team id does to users
OnDeleteSetNull(rows, id) == Detach(rows, id)

\* TeamRepository.Delete, second statement: DELETE FROM teams WHERE id = $1
\* and the rowsAffected == 0 check
DeleteTeam_Delete(p) ==
    /\ pc[p] = "dt_delete"
    /\ IF ~TeamExists(loc[p].team)
       THEN /\ teams' = teams
            /\ users' = users
            /\ Finish(p, loc[p], errTeamNotFound)
       ELSE /\ teams' = {t \in teams : t.id # loc[p].team}
            /\ users' = OnDeleteSetNull(users, loc[p].team)
            /\ Finish(p, loc[p], OK)
    /\ UNCHANGED <<infra, pull_requests, pr_reviewers, clock, calls, overtaken>>

\* requests that are between CreateUser's team lookup and its INSERT
Creating == {q \in Procs : pc[q] = "cu_create"}

\* Service.CreateUser: teamRepo.GetByID(*req.TeamID) when req.TeamID != nil
CreateUser_GetTeam(p, teamID) ==
    /\ Enter(p)
    /\ Cardinality(DOMAIN users) + Cardinality(Creating) < NumUsers
    /\ LET l == [Blank EXCEPT !.op = "CreateUser", !.team = teamID] IN
       IF teamID # NULL /\ ~TeamExists(teamID)
       THEN Finish(p, l, errTeamNotFound)
       ELSE Goto(p, l, "cu_create")
    /\ UNCHANGED <<infra, teams, users, pull_requests, pr_reviewers, clock, overtaken>>

\* id SERIAL of table users
NextUserID == Cardinality(DOMAIN users) + 1

\* UserRepository.Create: INSERT INTO users (..., is_active, team_id) with
\* IsActive: true
CreateUser_Create(p) ==
    /\ pc[p] = "cu_create"
    /\ IF ForeignKeyViolation(loc[p].team)
       THEN /\ users' = users
            /\ Finish(p, loc[p], errCreateUserFailed)
       ELSE /\ users' = users @@
                  (NextUserID :> [name |-> InitialName, is_active |-> TRUE,
                                  team_id |-> loc[p].team])
            /\ Finish(p, [loc[p] EXCEPT !.u = NextUserID], OK)
    /\ UNCHANGED <<infra, teams, pull_requests, pr_reviewers, clock, calls, overtaken>>

\* the rows of teams the requests name
TeamRows == {[id |-> 1, name |-> "backend"], [id |-> 2, name |-> "frontend"]}

\* UpdateUserRequest: Name and IsActive are pointers
UpdateUserRequests == [Name : {{}, {NewName}}, IsActive : {{}, {TRUE}, {FALSE}}]

\* a store with one or two teams, users that are members of them or of none,
\* and one OPEN PR of user 1 reviewed by user 2
InitMembers ==
    /\ teams \in {{t \in TeamRows : t.id = 1}, TeamRows}
    /\ users \in [1 .. NumUsers - 2 ->
                    [name : {InitialName}, is_active : BOOLEAN,
                     team_id : {NULL} \cup {t.id : t \in teams}]]
    /\ pull_requests = <<[author_id |-> 1, status |-> PRStatusOpen, merged_at |-> NULL]>>
    /\ pr_reviewers = [i \in PRIDs |-> [u \in UserIDs |-> IF i = 1 /\ u = 2 THEN 1 ELSE 0]]
    /\ clock = 1
    /\ pc = [p \in Procs |-> "idle"]
    /\ loc = [p \in Procs |-> Blank]
    /\ res = [p \in Procs |-> NoResult]
    /\ calls = 0
    /\ overtaken = [p \in Procs |-> "no"]
    /\ InfraUnused

NextMembers ==
    \E p \in Procs :
        \/ \E id \in ArgTeamIDs : DeleteTeam_GetByID(p, id)
        \/ DeleteTeam_Detach(p)
        \/ DeleteTeam_Delete(p)
        \/ \E t \in ArgTeamIDs \cup {NULL} : CreateUser_GetTeam(p, t)
        \/ CreateUser_Create(p)
        \/ \E t \in ArgTeamIDs, u \in 1 .. NumUsers - 1 : AddUserToTeam_Check(p, t, u)
        \/ AddUserToTeam_Update(p)
        \/ \E t \in ArgTeamIDs, u \in 1 .. NumUsers - 1 : RemoveUserFromTeam(p, t, u)
        \/ \E id \in 1 .. NumUsers - 1, req \in UpdateUserRequests : UpdateUser(p, id, req)
        \/ Respond(p)

SpecMembers == InitMembers /\ [][NextMembers]_vars

\* request p takes, in this step, a step of a call of op
StepOf(p, op) ==
    /\ pc'[p] # pc[p]
    /\ pc[p] # "done"
    /\ \/ loc[p].op = op
       \/ pc[p] = "idle" /\ (loc'[p].op = op \/ res'[p].op = op)

\* every team_id stored in users is the id of a row of teams
TeamRefsValid(rows, ts) ==
    \A u \in DOMAIN rows :
        rows[u].team_id # NULL => \E t \in ts : t.id = rows[u].team_id

\* C21: no user references a team that does not exist, in this state and the
\* next; a step of DeleteTeam(id) deletes no user, changes no name, no active
\* flag, no PR and no reviewer row, changes a team reference only from id to
\* none and removes no team but id; when DeleteTeam(id) returns nil the team
\* is gone and no user references it; DeleteTeam of an id no team has returns
\* "team not found" and changes nothing
C21_Step ==
    /\ TeamRefsValid(users, teams)
    /\ TeamRefsValid(users', teams')
    /\ \A p \in Procs :
          StepOf(p, "DeleteTeam") =>
             LET id == IF pc[p] = "idle" THEN loc'[p].team ELSE loc[p].team IN
             /\ DOMAIN users' = DOMAIN users
             /\ pull_requests' = pull_requests
             /\ pr_reviewers' = pr_reviewers
             /\ \A u \in DOMAIN users :
                   \/ users'[u] = users[u]
                   \/ /\ users[u].team_id = id
                      /\ pc[p] # "idle"
                      /\ users'[u] = [users[u] EXCEPT !.team_id = NULL]
             /\ teams' \subseteq teams
             /\ \A t \in teams \ teams' : t.id = id /\ pc[p] = "dt_delete"
             /\ Fails(p, OK) =>
                   /\ \E t \in teams : t.id = id
                   /\ \A t \in teams' : t.id # id
                   /\ \A u \in DOMAIN users' : users'[u].team_id # id
    /\ \A p \in Procs, id \in ArgTeamIDs :
          DeleteTeam_GetByID(p, id) /\ ~(\E t \in teams : t.id = id) =>
             /\ Fails(p, errTeamNotFound)
             /\ teams' = teams
             /\ users' = users

C21_DeleteTeamDetaches == [][C21_Step]_vars

\* a DeleteTeam has removed a team while an AddUserToTeam naming that team was
\* between its checks and its UPDATE, and the UPDATE was refused
C21_Witness ==
    \E p, q \in Procs :
        /\ pc[p] = "done" /\ res[p].op = "DeleteTeam" /\ res[p].err = OK
        /\ pc[q] = "done" /\ res[q].op = "AddUserToTeam"
        /\ res[q].err = errAddUserFailed
        /\ TeamRefsValid(users, teams)

\* C22: AddUserToTeam(teamID, userID) returns "team not found" for an unknown
\* team, else "user not found" for an unknown user, else "user already in
\* team" for a member of teamID; RemoveUserFromTeam(teamID, userID) returns
\* "team not found" for an unknown team, else "user not found" for an unknown
\* user, else "user not found in team" for a user who is not a member of
\* teamID; a failing call leaves users as it was, a successful one sets the
\* user's team_id to teamID (add) or to none (remove) and changes nothing else
C22_Step ==
    \A p \in Procs :
       /\ \A t \in ArgTeamIDs, u \in 1 .. NumUsers - 1 :
             /\ AddUserToTeam_Check(p, t, u) =>
                   /\ users' = users
                   /\ IF ~(\E tm \in teams : tm.id = t)
                      THEN Fails(p, errTeamNotFound)
                      ELSE IF u \notin DOMAIN users
                      THEN Fails(p, errUserNotFound)
                      ELSE IF users[u].team_id = t
                      THEN Fails(p, errAlreadyInTeam)
                      ELSE pc'[p] = "aut_update"
             /\ RemoveUserFromTeam(p, t, u) =>
                   IF ~(\E tm \in teams : tm.id = t)
                   THEN Fails(p, errTeamNotFound) /\ users' = users
                   ELSE IF u \notin DOMAIN users
                   THEN Fails(p, errUserNotFound) /\ users' = users
                   ELSE IF users[u].team_id # t
                   THEN Fails(p, errNotInTeam) /\ users' = users
                   ELSE /\ Fails(p, OK)
                        /\ users' = [users EXCEPT ![u].team_id = NULL]
       /\ pc[p] = "aut_update" /\ pc'[p] # "aut_update" =>
             IF Fails(p, OK)
             THEN users' = [users EXCEPT ![loc[p].u].team_id = loc[p].team]
             ELSE users' = users

C22_MembershipErrors == [][C22_Step]_vars

\* C23: UpdateUser(id, req) of a stored user returns nil and sets the name to
\* req.Name when that is present and the active flag to req.IsActive when
\* that is present; an absent field keeps its value, so a request with no
\* field changes nothing; the user's team_id, every other user, the teams,
\* the PRs and the reviewer rows stay as they were; for an id no user has it
\* returns "user not found" and changes no user
C23_Step ==
    \A p \in Procs, id \in 1 .. NumUsers - 1, req \in UpdateUserRequests :
        UpdateUser(p, id, req) =>
            /\ teams' = teams
            /\ pull_requests' = pull_requests
            /\ pr_reviewers' = pr_reviewers
            /\ DOMAIN users' = DOMAIN users
            /\ \A u \in DOMAIN users \ {id} : users'[u] = users[u]
            /\ IF id \notin DOMAIN users
               THEN Fails(p, errUserNotFound) /\ users' = users
               ELSE /\ Fails(p, OK)
                    /\ users'[id].team_id = users[id].team_id
                    /\ users'[id].name =
                          (IF req.Name = {} THEN users[id].name ELSE NewName)
                    /\ users'[id].is_active =
                          (IF req.IsActive = {} THEN users[id].is_active
                           ELSE TRUE \in req.IsActive)

C23_UpdateUserPartial == [][C23_Step]_vars

\* an UpdateUser has renamed an inactive member of a team: the name is the
\* request's, the active flag and the team are the ones stored before
C23_Witness ==
    \E p \in Procs :
        /\ pc[p] = "done" /\ res[p].op = "UpdateUser" /\ res[p].err = OK
        /\ res[p].u \in DOMAIN users
        /\ users[res[p].u].name = NewName
        /\ ~users[res[p].u].is_active
        /\ users[res[p].u].team_id # NULL

\* ---------------------------------------------------------------- HTTP handlers
\* net/http status codes the handlers send
StatusOK                  == 200
StatusCreated             == 201
StatusNoContent           == 204
StatusBadRequest          == 400
StatusNotFound            == 404
StatusConflict            == 409
StatusInternalServerError == 500

\* err.Error(): the words of each error message
Words(e) ==
    CASE e = errAuthorNotFound     -> <<"author", "not", "found">>
      [] e = errUserNotFound       -> <<"user", "not", "found">>
      [] e = errTeamNotFound       -> <<"team", "not", "found">>
      [] e = errPRNotFound         -> <<"PR", "not", "found">>
      [] e = errPRNotFoundOrFinal  -> <<"PR", "not", "found", "or", "already", "closed/merged">>
      [] e = errAddToFinalPR       ->
            <<"cannot", "add", "reviewers", "to", "merged", "or", "closed", "PR">>
      [] e = errAlreadyAssigned    -> <<"reviewer", "already", "assigned", "to", "this", "PR">>
      [] e = errAuthorCannotReview -> <<"author", "cannot", "be", "a", "reviewer">>
      [] e = errReviewerNotFound   -> <<"reviewer", "not", "found">>
      [] e = errReviewerInactive   -> <<"reviewer", "is", "not", "active">>
      [] e = errAddReviewerFailed  -> <<"failed", "to", "add", "reviewer">>
      [] e = errMergedPR           -> <<"cannot", "change", "reviewers", "of", "merged", "PR">>
      [] e = errReviewerNotInPR    -> <<"reviewer", "not", "found", "in", "PR">>
      [] e = errReviewerNoTeam     -> <<"reviewer", "is", "not", "in", "a", "team">>
      [] e = errNoAvailable        ->
            <<"failed", "to", "select", "new", "reviewer:", "no", "available",
              "reviewers", "in", "team">>
      [] e = errAddNewFailed       -> <<"failed", "to", "add", "new", "reviewer">>
      [] e = errAlreadyInTeam      -> <<"user", "already", "in", "team">>
      [] e = errNotInTeam          -> <<"user", "not", "found", "in", "team">>
      [] e = errAddUserFailed      -> <<"failed", "to", "add", "user", "to", "team">>
      [] e = errCreateUserFailed   -> <<"failed", "to", "create", "user">>
      [] e = errTeamExists         -> <<"team", "with", "name", "already", "exists">>
      [] e = errCreateTeamFailed   -> <<"failed", "to", "create", "team">>
      [] OTHER                     -> <<e>>

\* strings.Contains(err.Error(), substr), substr given by its words
Contains(e, substr) ==
    \E i \in 1 .. Len(Words(e)) - Len(substr) + 1 :
        SubSeq(Words(e), i, i + Len(substr) - 1) = substr

\* Handler.handleCreateEntity with errorMap {"not found": 404}
handleCreateEntity(e) ==
    IF e = OK THEN StatusCreated
    ELSE IF Contains(e, <<"not", "found">>) THEN StatusNotFound
    ELSE StatusInternalServerError

\* Handler.handleUpdateEntity
handleUpdateEntity(e) ==
    IF e = OK THEN StatusOK
    ELSE IF Contains(e, <<"not", "found">>) THEN StatusNotFound
    ELSE StatusInternalServerError

\* the status the handler of operation op sends when the service returns e
HandlerStatus(op, e) ==
    CASE op = "CreateTeam" ->
            IF e = OK THEN StatusCreated
            ELSE IF e = errTeamExists THEN StatusConflict
            ELSE StatusInternalServerError
      [] op = "DeleteTeam" ->
            IF e = OK THEN StatusNoContent
            ELSE IF e = errTeamNotFound THEN StatusNotFound
            ELSE StatusInternalServerError
      [] op = "AddUserToTeam" ->
            IF e = OK THEN StatusNoContent
            ELSE IF e = errAlreadyInTeam THEN StatusConflict
            ELSE IF e = errTeamNotFound \/ e = errUserNotFound THEN StatusNotFound
            ELSE StatusInternalServerError
      [] op = "RemoveUserFromTeam" ->
            IF e = OK THEN StatusNoContent
            ELSE IF e = errNotInTeam THEN StatusNotFound
            ELSE StatusInternalServerError
      [] op = "BulkDeactivateUsers" ->
            IF e = OK THEN StatusOK ELSE StatusInternalServerError
      [] op = "CreateUser" -> handleCreateEntity(e)
      [] op = "UpdateUser" ->
            IF e = OK THEN StatusOK
            ELSE IF e = errUserNotFound THEN StatusNotFound
            ELSE StatusInternalServerError
      [] op = "CreatePullRequest" -> handleCreateEntity(e)
      [] op = "AddReviewer" ->
            IF e = OK THEN StatusOK
            ELSE IF Contains(e, <<"not", "found">>) THEN StatusNotFound
            ELSE IF \/ Contains(e, <<"cannot">>)
                    \/ Contains(e, <<"already">>)
                    \/ Contains(e, <<"author">>)
            THEN StatusBadRequest
            ELSE StatusInternalServerError
      [] op = "ReassignReviewer" ->
            IF e = OK THEN StatusOK
            ELSE IF e = errPRNotFound \/ e = errReviewerNotInPR THEN StatusNotFound
            ELSE IF e = errMergedPR THEN StatusBadRequest
            ELSE StatusInternalServerError
      [] op = "MergePullRequest" -> handleUpdateEntity(e)
      [] op = "ClosePullRequest" -> handleUpdateEntity(e)

\* the error kinds of the service: unknown entities, and violations of a
\* PR's state or of a precondition
NotFoundErrors ==
    {errAuthorNotFound, errUserNotFound, errTeamNotFound, errPRNotFound,
     errReviewerNotFound, errReviewerNotInPR}
StateErrors ==
    {errAddToFinalPR, errMergedPR, errAlreadyAssigned, errAuthorCannotReview,
     errReviewerInactive, errReviewerNoTeam, errNoAvailable, errAlreadyInTeam,
     errTeamExists}

\* C24: when a call has returned an error of the service, the status its
\* handler sends is 404 for an unknown team, user, PR or reviewer, and 400 or
\* 409 for a violation of state or of a precondition; "user not found in
\* team" and "PR not found or already closed/merged", which are both, are
\* sent as 400, 404 or 409; none of them is sent as 500
C24_ErrorStatus ==
    \A p \in Procs :
        pc[p] = "done" =>
            LET e  == res[p].err
                st == HandlerStatus(res[p].op, e)
            IN  /\ e \in NotFoundErrors => st = StatusNotFound
                /\ e \in StateErrors => st \in {StatusBadRequest, StatusConflict}
                /\ e \in {errNotInTeam, errPRNotFoundOrFinal} =>
                      st \in {StatusBadRequest, StatusNotFound, StatusConflict}

\* ---------------------------------------------------------------- load of the reviewers
\* one OPEN PR created earlier from these users, and room for a second one
InitBalance ==
    /\ teams = InitialTeams
    /\ users \in [UserIDs -> [name : {InitialName}, is_active : BOOLEAN,
                                team_id : TeamIDs \cup {NULL}]]
    /\ \A u \in 1 .. 2 : users[u] = [name |-> InitialName, is_active |-> TRUE, team_id |-> 1]
    /\ users[3].team_id = 1
    /\ \E a \in UserIDs :
          /\ pull_requests =
                <<[author_id |-> a, status |-> PRStatusOpen, merged_at |-> NULL]>>
          /\ \E sel \in SUBSET (UserIDs \ {a}) :
                /\ Cardinality(sel) <= MaxReviewers
                /\ pr_reviewers =
                      [i \in 1 .. BulkPRs |-> [u \in UserIDs |->
                          IF i = 1 /\ u \in sel THEN 1 ELSE 0]]
    /\ clock = 1
    /\ pc = [p \in Procs |-> "idle"]
    /\ loc = [p \in Procs |-> Blank]
    /\ res = [p \in Procs |-> NoResult]
    /\ calls = 0
    /\ overtaken = [p \in Procs |-> "no"]
    /\ InfraUnused

NextBalance ==
    \E p \in Procs :
        \/ \E a \in ArgUserIDs : CreatePullRequest_GetAuthor(p, a)
        \/ CreatePullRequest_Select(p)
        \/ CreatePullRequest_Create(p)
        \/ Respond(p)

SpecBalance == InitBalance /\ [][NextBalance]_vars

\* the number of PRs user u is a reviewer of
AssignmentCount(u) ==
    Cardinality({id \in DOMAIN pull_requests : pr_reviewers[id][u] > 0})

\* C25: when CreatePullRequest selects the reviewers and more than 2
\* candidates are eligible, no selected reviewer has more current assignments
\* than an eligible candidate that was not selected
C25_Step ==
    \A p \in Procs :
        pc[p] = "cpr_select" /\ pc'[p] = "cpr_create" =>
            LET eligible == Eligible(loc[p].team, loc[p].author)
                selected == loc'[p].sel
            IN  Cardinality(eligible) > MaxReviewers =>
                   \A r \in selected, c \in eligible \ selected :
                       AssignmentCount(r) <= AssignmentCount(c)

C25_BalancedSelection == [][C25_Step]_vars

\* C28: every stored PR has a merge timestamp exactly when its status is
\* MERGED
C28_MergedAtIffMerged ==
    \A id \in DOMAIN pull_requests :
        pull_requests[id].merged_at # NULL <=> Status(id) = PRStatusMerged

\* a PR created by CreatePullRequest has been merged and another request has
\* found it closed to ClosePullRequest
C28_Witness ==
    /\ \E id \in DOMAIN pull_requests :
          Status(id) = PRStatusMerged /\ pull_requests[id].merged_at # NULL
    /\ \E p \in Procs :
          /\ pc[p] = "done" /\ res[p].op = "ClosePullRequest"
          /\ res[p].err = errPRNotFoundOrFinal

\* ---------------------------------------------------------------- statistics
CountStatus_NoFilter(status) == Len(pull_requests)

\* COUNT(*) FILTER (WHERE status = ...) FROM pull_requests
CountStatus(status) ==
    Cardinality({id \in DOMAIN pull_requests : pull_requests[id].status = status})

\* StatisticsRepository.GetStatistics, first query: the four PR counts
GetStatistics_Counts(p) ==
    /\ Enter(p)
    /\ LET counts == [NoStatistics EXCEPT
                         !.TotalPRs  = Len(pull_requests),
                         !.OpenPRs   = CountStatus(PRStatusOpen),
                         !.MergedPRs = CountStatus(PRStatusMerged),
                         !.ClosedPRs = CountStatus(PRStatusClosed)]
       IN  Goto(p, [Blank EXCEPT !.op = "GetStatistics", !.stats = counts], "gs_users")
    /\ UNCHANGED <<infra, teams, users, pull_requests, pr_reviewers, clock, overtaken>>

\* getUserStatistics: users LEFT JOIN pr_reviewers GROUP BY u.id
\* HAVING COUNT(pr.pr_id) > 0
getUserStatistics ==
    {[UserID |-> u, AssignmentCount |-> AssignmentCount(u)] :
        u \in {v \in DOMAIN users : AssignmentCount(v) > 0}}

GetStatistics_Users(p) ==
    /\ pc[p] = "gs_users"
    /\ Goto(p, [loc[p] EXCEPT !.stats.UserStats = getUserStatistics], "gs_teams")
    /\ UNCHANGED <<infra, teams, users, pull_requests, pr_reviewers, clock, calls, overtaken>>

\* COUNT(DISTINCT p.id) of teams LEFT JOIN users LEFT JOIN pull_requests
PRCount(teamID) ==
    Cardinality({id \in DOMAIN pull_requests :
                    users[pull_requests[id].author_id].team_id = teamID})

\* getTeamStatistics: GROUP BY t.id HAVING COUNT(DISTINCT p.id) > 0
getTeamStatistics ==
    {[TeamID |-> t.id, PRCount |-> PRCount(t.id)] :
        t \in {tm \in teams : PRCount(tm.id) > 0}}

GetStatistics_Teams(p) ==
    /\ pc[p] = "gs_teams"
    /\ Finish(p, [loc[p] EXCEPT !.stats.TeamStats = getTeamStatistics], OK)
    /\ UNCHANGED <<infra, teams, users, pull_requests, pr_reviewers, clock, calls, overtaken>>

NextStats ==
    \E p \in Procs :
        \/ \E a \in ArgUserIDs : CreatePullRequest_GetAuthor(p, a)
        \/ CreatePullRequest_Select(p)
        \/ CreatePullRequest_Create(p)
        \/ \E id \in PRIDs : MergePullRequest(p, id)
        \/ \E id \in PRIDs : ClosePullRequest(p, id)
        \/ GetStatistics_Counts(p)
        \/ GetStatistics_Users(p)
        \/ GetStatistics_Teams(p)
        \/ Respond(p)

SpecStats == Init /\ [][NextStats]_vars

\* the stored PRs of a status
StoredWith(status) == {id \in DOMAIN pull_requests : Status(id) = status}

\* C29: no step of GetStatistics changes a team, a user, a PR or a reviewer
\* row; the counts it reads are the numbers of stored PRs that are OPEN,
\* MERGED and CLOSED, and TotalPRs is their sum; the users it lists are the
\* users that review a PR, each with the number of PRs that user reviews;
\* it returns nil and what it has read
C29_Step ==
    \A p \in Procs :
        StepOf(p, "GetStatistics") =>
            /\ teams' = teams
            /\ users' = users
            /\ pull_requests' = pull_requests
            /\ pr_reviewers' = pr_reviewers
            /\ pc[p] = "idle" =>
                  LET st == loc'[p].stats IN
                  /\ st.OpenPRs = Cardinality(StoredWith(PRStatusOpen))
                  /\ st.MergedPRs = Cardinality(StoredWith(PRStatusMerged))
                  /\ st.ClosedPRs = Cardinality(StoredWith(PRStatusClosed))
                  /\ st.TotalPRs = st.OpenPRs + st.MergedPRs + st.ClosedPRs
                  /\ st.TotalPRs = Len(pull_requests)
            /\ pc[p] = "gs_users" =>
                  LET st == loc'[p].stats IN
                  /\ \A row \in st.UserStats :
                        row.AssignmentCount =
                            Cardinality({id \in DOMAIN pull_requests :
                                            row.UserID \in getReviewers(id)})
                  /\ \A id \in DOMAIN pull_requests :
                        \A u \in getReviewers(id) :
                            \E row \in st.UserStats : row.UserID = u
                  /\ \A f \in {"TotalPRs", "OpenPRs", "MergedPRs", "ClosedPRs"} :
                        st[f] = loc[p].stats[f]
            /\ pc[p] = "gs_teams" =>
                  /\ Fails(p, OK)
                  /\ \A f \in {"TotalPRs", "OpenPRs", "MergedPRs", "ClosedPRs", "UserStats"} :
                        res'[p].stats[f] = loc[p].stats[f]

CBMaxCalls  == 4    \* Execute calls started in one behaviour
CBMaxTime   == 4    \* readings of the breaker's clock are 1 .. CBMaxTime
CBTimeout   == 1    \* Settings.Timeout, in ticks of that clock
CBInterval  == 2    \* Settings.Interval, in ticks of that clock
CBMaxTrip   == 2    \* ReadyToTrip: ConsecutiveFailures >= 1 .. CBMaxTrip
CBMaxRequests == 2  \* Config.MaxRequests is 0 .. CBMaxRequests

StateClosed   == "closed"
StateHalfOpen == "half-open"
StateOpen     == "open"

ErrOpenState       == "circuit breaker is open"
ErrTooManyRequests == "too many requests"
testErr            == "test error"

\* gobreaker.Counts after clear()
NoCounts ==
    [Requests |-> 0, TotalSuccesses |-> 0, TotalFailures |-> 0,
     ConsecutiveSuccesses |-> 0, ConsecutiveFailures |-> 0]

\* Config.ReadyToTrip as the tests set it: ConsecutiveFailures >= n
ReadyToTrip(b) == b.counts.ConsecutiveFailures >= b.cfg.Trip

\* toNewGeneration: a new generation with cleared counts and the expiry of
\* the state
toNewGeneration(b, now) ==
    [b EXCEPT !.generation = @ + 1,
              !.counts = NoCounts,
              !.expiry = CASE b.state = StateClosed   -> now + CBInterval
                           [] b.state = StateOpen     -> now + CBTimeout
                           [] b.state = StateHalfOpen -> 0]

setState(b, state, now) ==
    IF b.state = state THEN b ELSE toNewGeneration([b EXCEPT !.state = state], now)

\* currentState: a closed breaker past its interval starts a new generation,
\* an open breaker past its timeout becomes half-open
currentState(b, now) ==
    CASE b.state = StateClosed ->
            IF b.expiry # 0 /\ b.expiry < now THEN toNewGeneration(b, now) ELSE b
      [] b.state = StateOpen ->
            IF b.expiry < now THEN setState(b, StateHalfOpen, now) ELSE b
      [] b.state = StateHalfOpen -> b

\* onSuccess: in half-open, MaxRequests consecutive successes close the breaker
onSuccess(b, now) ==
    LET c == [b EXCEPT !.counts.TotalSuccesses = @ + 1,
                       !.counts.ConsecutiveSuccesses = @ + 1,
                       !.counts.ConsecutiveFailures = 0]
    IN  IF b.state = StateHalfOpen /\ c.counts.ConsecutiveSuccesses >= b.cfg.MaxRequests
        THEN setState(c, StateClosed, now)
        ELSE c

onFailure_NoTrip(b, now) ==
    [b EXCEPT !.counts.TotalFailures = @ + 1,
              !.counts.ConsecutiveFailures = @ + 1,
              !.counts.ConsecutiveSuccesses = 0]

\* onFailure: a closed breaker opens when ReadyToTrip(counts), a half-open
\* one opens at once
onFailure(b, now) ==
    IF b.state = StateClosed
    THEN LET c == [b EXCEPT !.counts.TotalFailures = @ + 1,
                            !.counts.ConsecutiveFailures = @ + 1,
                            !.counts.ConsecutiveSuccesses = 0]
         IN  IF ReadyToTrip(c) THEN setState(c, StateOpen, now) ELSE c
    ELSE IF b.state = StateHalfOpen THEN setState(b, StateOpen, now)
    ELSE b

\* a caller of Execute that has not called yet
NoCall == [pc |-> "idle", generation |-> 0, err |-> "", invoked |-> FALSE]

\* circuitbreaker.New: MaxRequests 0 becomes 1; gobreaker.NewCircuitBreaker
\* starts closed in its first generation
New(cfg, now) ==
    toNewGeneration(
        [cfg |-> [cfg EXCEPT !.MaxRequests = IF @ = 0 THEN 1 ELSE @],
         state |-> StateClosed, generation |-> 0, counts |-> NoCounts, expiry |-> 0,
         now |-> now, calls |-> 0, caller |-> [c \in Procs |-> NoCall]],
        now)

InitBreaker ==
    /\ \E maxRequests \in 0 .. CBMaxRequests, trip \in 1 .. CBMaxTrip :
          breaker = New([MaxRequests |-> maxRequests, Trip |-> trip], 1)
    /\ flags = Unused
    /\ webhook = Unused
    /\ teams = {}
    /\ users = <<>>
    /\ pull_requests = <<>>
    /\ pr_reviewers = <<>>
    /\ clock = 1
    /\ pc = [p \in Procs |-> "idle"]
    /\ loc = [p \in Procs |-> Blank]
    /\ res = [p \in Procs |-> NoResult]
    /\ calls = 0
    /\ overtaken = [p \in Procs |-> "no"]

\* the review workflow takes no step
WorkflowIdle == UNCHANGED <<teams, users, pull_requests, pr_reviewers, clock, pc, loc, res,
                            calls, overtaken>>

\* time passes
Breaker_Tick ==
    /\ breaker.now < CBMaxTime
    /\ breaker' = [breaker EXCEPT !.now = @ + 1]
    /\ UNCHANGED <<flags, webhook>>
    /\ WorkflowIdle

\* CircuitBreaker.Execute -> gobreaker Execute, beforeRequest: ErrOpenState
\* when open, ErrTooManyRequests when half-open with MaxRequests admitted,
\* else the request is counted and fn may run
Execute_beforeRequest(c) ==
    /\ breaker.caller[c].pc = "idle"
    /\ breaker.calls < CBMaxCalls
    /\ LET b == [currentState(breaker, breaker.now) EXCEPT !.calls = @ + 1] IN
       breaker' =
          IF b.state = StateOpen
          THEN [b EXCEPT !.caller[c] = [NoCall EXCEPT !.pc = "done", !.err = ErrOpenState]]
          ELSE IF b.state = StateHalfOpen /\ b.counts.Requests >= b.cfg.MaxRequests
          THEN [b EXCEPT !.caller[c] =
                            [NoCall EXCEPT !.pc = "done", !.err = ErrTooManyRequests]]
          ELSE [b EXCEPT !.counts.Requests = @ + 1,
                         !.caller[c] = [NoCall EXCEPT !.pc = "fn",
                                                      !.generation = b.generation]]
    /\ UNCHANGED <<flags, webhook>>
    /\ WorkflowIdle

\* fn has returned err; afterRequest counts the outcome unless the generation
\* has changed since beforeRequest; Execute returns fn's error
Execute_afterRequest(c, err) ==
    /\ breaker.caller[c].pc = "fn"
    /\ LET b == currentState(breaker, breaker.now)
           a == IF b.generation # breaker.caller[c].generation THEN b
                ELSE IF err = OK THEN onSuccess(b, breaker.now)
                ELSE onFailure(b, breaker.now)
       IN  breaker' = [a EXCEPT !.caller[c].pc = "done",
                                !.caller[c].err = err,
                                !.caller[c].invoked = TRUE]
    /\ UNCHANGED <<flags, webhook>>
    /\ WorkflowIdle

\* the caller has taken Execute's result
Execute_Return(c) ==
    /\ breaker.caller[c].pc = "done"
    /\ breaker' = [breaker EXCEPT !.caller[c] = NoCall]
    /\ UNCHANGED <<flags, webhook>>
    /\ WorkflowIdle

NextBreaker ==
    \/ Breaker_Tick
    \/ \E c \in Procs :
          \/ Execute_beforeRequest(c)
          \/ \E err \in {OK, testErr} : Execute_afterRequest(c, err)
          \/ Execute_Return(c)

SpecBreaker == InitBreaker /\ [][NextBreaker]_vars

\* CircuitBreaker.State: the state as of now
State == currentState(breaker, breaker.now).state

\* caller c's Execute passes beforeRequest in this step
Admits(c) == breaker.caller[c].pc = "idle" /\ breaker'.caller[c].pc # "idle"

\* caller c's fn returns err in this step, as a call of the generation that
\* admitted it
Counted(c, err) ==
    /\ breaker.caller[c].pc = "fn"
    /\ breaker'.caller[c].pc = "done"
    /\ breaker'.caller[c].err = err
    /\ breaker.caller[c].generation = currentState(breaker, breaker.now).generation

C26_Trips ==
    \A c \in Procs :
       Counted(c, testErr) =>
          /\ breaker'.state # StateOpen => ~ReadyToTrip(breaker')
          /\ State = StateHalfOpen => breaker'.state = StateOpen

C26_OpenRejects ==
    \A c \in Procs :
       Admits(c) /\ State = StateOpen =>
          /\ breaker'.caller[c].pc = "done"
          /\ breaker'.caller[c].err = ErrOpenState
          /\ ~breaker'.caller[c].invoked
          /\ breaker'.state = StateOpen
          /\ breaker'.counts = breaker.counts

\* C26 as the code has it: a failed call after which ReadyToTrip holds leaves
\* the breaker open, and so does a failed call in half-open; an Execute
\* issued while the breaker is open returns ErrOpenState without invoking fn;
\* after the open timeout a successful call admitted in half-open closes the
\* breaker exactly when it is the MaxRequests-th consecutive success (the
\* first one when MaxRequests is 0 or 1).
C26_BreakerStateMachine ==
    [][ /\ C26_Trips
        /\ C26_OpenRejects
        /\ \A c \in Procs :
              Counted(c, OK) /\ State = StateHalfOpen =>
                 IF breaker.counts.ConsecutiveSuccesses + 1 >= breaker.cfg.MaxRequests
                 THEN breaker'.state = StateClosed
                 ELSE breaker'.state = StateHalfOpen ]_vars

\* with MaxRequests 2 the second consecutive success in half-open has closed
\* the breaker
C26_Witness ==
    /\ breaker.cfg.MaxRequests = 2
    /\ breaker.state = StateClosed
    /\ breaker.generation = 4
    /\ \E c \in Procs :
          /\ breaker.caller[c].pc = "done"
          /\ breaker.caller[c].err = OK
          /\ breaker.caller[c].generation = 3

\* C26 as stated: a single successful call in half-open closes the breaker
C26_SingleSuccessCloses ==
    [][ \A c \in Procs :
           Counted(c, OK) /\ State = StateHalfOpen => breaker'.state = StateClosed ]_vars

\* ------------------------------------------------------------------ feature flags
FFMaxFlags == 2     \* Flag objects allocated in one behaviour

\* keys: a default flag of initDefaultFlags and one that is not a default
FlagKeys == {"webhooks", "beta"}

\* rollout configurations handed to SetFlag and SetRollout; the id lists are
\* sets, as the code only tests membership
Rollouts ==
    { [Percentage |-> 0,  UserIDs |-> {},  TeamIDs |-> {7}],
      [Percentage |-> 0,  UserIDs |-> {5}, TeamIDs |-> {}],
      [Percentage |-> 50, UserIDs |-> {0}, TeamIDs |-> {0}] }

\* a *Context: {} is nil, {c} points to c
Contexts ==
    {{}} \cup {{[UserID |-> u, TeamID |-> t]} : u \in {0, 5, 160}, t \in {0, 7}}

\* the caller of IsEnabledWithContext when it is not in a call; seen is a
\* ghost: what the flag's states since the call began evaluate to
NoEvaluation ==
    [pc |-> "idle", key |-> "", ctx |-> {}, flag |-> 0, result |-> FALSE, seen |-> {}]

\* the value the claim gives to the Flag object f of fl (0: no such flag) and
\* a context
Evaluate(fl, f, ctx) ==
    IF f = 0 THEN FALSE
    ELSE IF ~fl.heap[f].Enabled THEN FALSE
    ELSE IF fl.heap[f].Rollout = {} \/ ctx = {} THEN TRUE
    ELSE LET r == Deref(fl.heap[f].Rollout)
             c == Deref(ctx)
         IN  \/ c.UserID > 0 /\ c.UserID \in r.UserIDs
             \/ c.TeamID > 0 /\ c.TeamID \in r.TeamIDs
             \/ r.Percentage > 0 /\ c.UserID > 0 /\ c.UserID % 100 < r.Percentage

\* NewManager, initDefaultFlags: m.flags maps a key to a *Flag (0: no entry),
\* heap holds the Flag objects
InitFlags ==
    /\ flags = [m |-> [k \in FlagKeys |-> IF k = "webhooks" THEN 1 ELSE 0],
                heap |-> <<[Key |-> "webhooks", Enabled |-> FALSE, Rollout |-> {}]>>,
                call |-> NoEvaluation]
    /\ breaker = Unused
    /\ webhook = Unused
    /\ teams = {}
    /\ users = <<>>
    /\ pull_requests = <<>>
    /\ pr_reviewers = <<>>
    /\ clock = 1
    /\ pc = [p \in Procs |-> "idle"]
    /\ loc = [p \in Procs |-> Blank]
    /\ res = [p \in Procs |-> NoResult]
    /\ calls = 0
    /\ overtaken = [p \in Procs |-> "no"]

\* flags after a writer's step, with the ghost of a call in progress extended
\* by the value of the new state of its flag
Written(f) ==
    IF f.call.pc \in {"idle", "done"} THEN f
    ELSE [f EXCEPT !.call.seen = @ \cup {Evaluate(f, f.m[f.call.key], f.call.ctx)}]

\* SetFlag: the map entry points to the caller's new Flag object
SetFlag(flag) ==
    /\ Len(flags.heap) < FFMaxFlags
    /\ flags' = Written([flags EXCEPT !.heap = Append(@, flag),
                                      !.m[flag.Key] = Len(flags.heap) + 1])
    /\ UNCHANGED <<breaker, webhook>>
    /\ WorkflowIdle

\* EnableFlag: writes Enabled of the stored object, under the write lock
EnableFlag(key) ==
    /\ flags' = IF flags.m[key] = 0 THEN flags
                ELSE Written([flags EXCEPT !.heap[flags.m[key]].Enabled = TRUE])
    /\ UNCHANGED <<breaker, webhook>>
    /\ WorkflowIdle

\* DisableFlag: writes Enabled of the stored object, under the write lock
DisableFlag(key) ==
    /\ flags' = IF flags.m[key] = 0 THEN flags
                ELSE Written([flags EXCEPT !.heap[flags.m[key]].Enabled = FALSE])
    /\ UNCHANGED <<breaker, webhook>>
    /\ WorkflowIdle

\* SetRollout: writes Rollout of the stored object, under the write lock
SetRollout(key, rollout) ==
    /\ flags' = IF flags.m[key] = 0 THEN flags
                ELSE Written([flags EXCEPT !.heap[flags.m[key]].Rollout = {rollout}])
    /\ UNCHANGED <<breaker, webhook>>
    /\ WorkflowIdle

\* the call returns result
Evaluated(result) == [flags EXCEPT !.call.pc = "done", !.call.result = result]

\* IsEnabledWithContext, lines 127-134: the map lookup under the read lock
IsEnabledWithContext_Lookup(key, ctx) ==
    /\ flags.call.pc = "idle"
    /\ LET f == [flags EXCEPT !.call =
                    [NoEvaluation EXCEPT !.key = key, !.ctx = ctx, !.flag = flags.m[key],
                                         !.seen = {Evaluate(flags, flags.m[key], ctx)}]]
       IN  flags' = IF flags.m[key] = 0
                    THEN [f EXCEPT !.call.pc = "done", !.call.result = FALSE]
                    ELSE [f EXCEPT !.call.pc = "enabled"]
    /\ UNCHANGED <<breaker, webhook>>
    /\ WorkflowIdle

\* line 137: flag.Enabled is read after the lock is released
IsEnabledWithContext_Enabled ==
    /\ flags.call.pc = "enabled"
    /\ flags' = IF ~flags.heap[flags.call.flag].Enabled THEN Evaluated(FALSE)
                ELSE [flags EXCEPT !.call.pc = "rollout"]
    /\ UNCHANGED <<breaker, webhook>>
    /\ WorkflowIdle

\* line 142: flag.Rollout == nil || ctx == nil
IsEnabledWithContext_Rollout ==
    /\ flags.call.pc = "rollout"
    /\ flags' = IF flags.heap[flags.call.flag].Rollout = {} \/ flags.call.ctx = {}
                THEN Evaluated(TRUE)
                ELSE [flags EXCEPT !.call.pc = "users"]
    /\ UNCHANGED <<breaker, webhook>>
    /\ WorkflowIdle

\* lines 147-153: flag.Rollout is read again for the UserIDs whitelist
IsEnabledWithContext_UserIDs ==
    /\ flags.call.pc = "users"
    /\ LET r == Deref(flags.heap[flags.call.flag].Rollout)
           c == Deref(flags.call.ctx)
       IN  flags' = IF c.UserID > 0 /\ c.UserID \in r.UserIDs THEN Evaluated(TRUE)
                    ELSE [flags EXCEPT !.call.pc = "teams"]
    /\ UNCHANGED <<breaker, webhook>>
    /\ WorkflowIdle

\* lines 156-162: flag.Rollout is read again for the TeamIDs whitelist
IsEnabledWithContext_TeamIDs ==
    /\ flags.call.pc = "teams"
    /\ LET r == Deref(flags.heap[flags.call.flag].Rollout)
           c == Deref(flags.call.ctx)
       IN  flags' = IF c.TeamID > 0 /\ c.TeamID \in r.TeamIDs THEN Evaluated(TRUE)
                    ELSE [flags EXCEPT !.call.pc = "percentage"]
    /\ UNCHANGED <<breaker, webhook>>
    /\ WorkflowIdle

\* line 165: flag.Rollout.Percentage > 0 && ctx.UserID > 0
IsEnabledWithContext_Percentage ==
    /\ flags.call.pc = "percentage"
    /\ LET r == Deref(flags.heap[flags.call.flag].Rollout)
           c == Deref(flags.call.ctx)
       IN  flags' = IF r.Percentage > 0 /\ c.UserID > 0
                    THEN [flags EXCEPT !.call.pc = "hash"]
                    ELSE Evaluated(FALSE)
    /\ UNCHANGED <<breaker, webhook>>
    /\ WorkflowIdle

\* lines 167-173: hash < flag.Rollout.Percentage, read once more
IsEnabledWithContext_Hash ==
    /\ flags.call.pc = "hash"
    /\ LET r == Deref(flags.heap[flags.call.flag].Rollout)
           c == Deref(flags.call.ctx)
       IN  flags' = Evaluated(c.UserID % 100 < r.Percentage)
    /\ UNCHANGED <<breaker, webhook>>
    /\ WorkflowIdle

\* the caller has taken the result
IsEnabledWithContext_Return ==
    /\ flags.call.pc = "done"
    /\ flags' = [flags EXCEPT !.call = NoEvaluation]
    /\ UNCHANGED <<breaker, webhook>>
    /\ WorkflowIdle

NextFlags ==
    \/ \E key \in FlagKeys, enabled \in BOOLEAN, rollout \in {{}} \cup {{r} : r \in Rollouts} :
          SetFlag([Key |-> key, Enabled |-> enabled, Rollout |-> rollout])
    \/ \E key \in FlagKeys : EnableFlag(key)
    \/ \E key \in FlagKeys : DisableFlag(key)
    \/ \E key \in FlagKeys, rollout \in Rollouts : SetRollout(key, rollout)
    \/ \E key \in FlagKeys, ctx \in Contexts : IsEnabledWithContext_Lookup(key, ctx)
    \/ IsEnabledWithContext_Enabled
    \/ IsEnabledWithContext_Rollout
    \/ IsEnabledWithContext_UserIDs
    \/ IsEnabledWithContext_TeamIDs
    \/ IsEnabledWithContext_Percentage
    \/ IsEnabledWithContext_Hash
    \/ IsEnabledWithContext_Return

SpecFlags == InitFlags /\ [][NextFlags]_vars

\* C27: a call of IsEnabledWithContext returns the value of the claim's
\* function (false for an unknown or disabled flag, true for an enabled flag
\* without rollout or context, otherwise the whitelist and percentage rule)
\* on the context and a state that the flag had during the call.
C27_EvaluationDeterministic ==
    flags.call.pc = "done" => flags.call.result \in flags.call.seen

\* ----------------------------------------------------------------------- webhooks
NumWorkers == 2     \* worker goroutines (NewManager starts 5)
QueueCap   == 2     \* capacity of Manager.queue (make(chan *webhookJob, 100))
MaxJobs    == 3     \* jobs triggered in one behaviour
maxRetries == 3     \* worker: deliverWithRetry(ctx, ..., 3)

Workers == 1 .. NumWorkers

\* errors of Deliverer.Deliver, and ctx.Err() of an expired context
DeliverErrors    == {"webhook returned status 500", "failed to deliver webhook"}
DeadlineExceeded == "context deadline exceeded"

\* a worker blocked in `for job := range m.queue`; log is a ghost: the
\* results of the Deliver calls made for the job
NoJob ==
    [pc |-> "idle", job |-> 0, i |-> 0, lastErr |-> OK, ctxDone |-> FALSE, err |-> OK,
     log |-> <<>>]

InitWebhook ==
    /\ webhook = [queue |-> <<>>, triggered |-> 0, dropped |-> {},
                  worker |-> [w \in Workers |-> NoJob],
                  finished |-> {}]
    /\ breaker = Unused
    /\ flags = Unused
    /\ teams = {}
    /\ users = <<>>
    /\ pull_requests = <<>>
    /\ pr_reviewers = <<>>
    /\ clock = 1
    /\ pc = [p \in Procs |-> "idle"]
    /\ loc = [p \in Procs |-> Blank]
    /\ res = [p \in Procs |-> NoResult]
    /\ calls = 0
    /\ overtaken = [p \in Procs |-> "no"]

\* Trigger, for one subscribed subscription: the job is queued, or dropped
\* when the queue is full
Trigger ==
    /\ webhook.triggered < MaxJobs
    /\ LET job == webhook.triggered + 1 IN
       webhook' = IF Len(webhook.queue) < QueueCap
                  THEN [webhook EXCEPT !.triggered = job, !.queue = Append(@, job)]
                  ELSE [webhook EXCEPT !.triggered = job, !.dropped = @ \cup {job}]
    /\ UNCHANGED <<breaker, flags>>
    /\ WorkflowIdle

\* worker, lines 206-210: takes a job, creates its context and enters
\* deliverWithRetry with i = 0
worker_Dequeue(w) ==
    /\ webhook.worker[w].pc = "idle"
    /\ webhook.queue # <<>>
    /\ webhook' = [webhook EXCEPT !.queue = Tail(@),
                                  !.worker[w] = [NoJob EXCEPT !.pc = "deliver",
                                                              !.job = Head(webhook.queue)]]
    /\ UNCHANGED <<breaker, flags>>
    /\ WorkflowIdle

\* the 30 s of the job's context are over
worker_ContextTimeout(w) ==
    /\ webhook.worker[w].pc \in {"deliver", "backoff"}
    /\ ~webhook.worker[w].ctxDone
    /\ webhook' = [webhook EXCEPT !.worker[w].ctxDone = TRUE]
    /\ UNCHANGED <<breaker, flags>>
    /\ WorkflowIdle

deliverWithRetry_Deliver_NoStop(w, err) ==
    /\ webhook.worker[w].pc = "deliver"
    /\ LET i == webhook.worker[w].i + 1 IN
       webhook' = [webhook EXCEPT
           !.worker[w].log = Append(@, err),
           !.worker[w].lastErr = err,
           !.worker[w].i = i,
           !.worker[w].pc = IF i < maxRetries THEN "backoff" ELSE "return",
           !.worker[w].err = IF i < maxRetries THEN OK ELSE err]
    /\ UNCHANGED <<breaker, flags>>
    /\ WorkflowIdle

\* deliverWithRetry, lines 238-250 and 252: Deliver returns err; nil ends the
\* call, an error is kept as lastErr and i++ leads to the back-off or, at
\* maxRetries, to return lastErr
deliverWithRetry_Deliver(w, err) ==
    /\ webhook.worker[w].pc = "deliver"
    /\ LET i == webhook.worker[w].i + 1 IN
       webhook' =
          IF err = OK
          THEN [webhook EXCEPT !.worker[w].log = Append(@, err),
                               !.worker[w].pc = "return",
                               !.worker[w].err = OK]
          ELSE [webhook EXCEPT
                   !.worker[w].log = Append(@, err),
                   !.worker[w].lastErr = err,
                   !.worker[w].i = i,
                   !.worker[w].pc = IF i < maxRetries THEN "backoff" ELSE "return",
                   !.worker[w].err = IF i < maxRetries THEN OK ELSE err]
    /\ UNCHANGED <<breaker, flags>>
    /\ WorkflowIdle

\* deliverWithRetry, lines 228-236: the select takes whichever of the timer
\* and ctx.Done() is ready first
deliverWithRetry_Backoff(w) ==
    /\ webhook.worker[w].pc = "backoff"
    /\ webhook' = IF webhook.worker[w].ctxDone
                  THEN [webhook EXCEPT !.worker[w].pc = "return",
                                       !.worker[w].err = DeadlineExceeded]
                  ELSE [webhook EXCEPT !.worker[w].pc = "deliver"]
    /\ UNCHANGED <<breaker, flags>>
    /\ WorkflowIdle

\* worker, lines 211-220: the result is logged, the context cancelled, and
\* the worker waits for the next job
worker_Finish(w) ==
    /\ webhook.worker[w].pc = "return"
    /\ webhook' = [webhook EXCEPT
           !.finished = @ \cup {webhook.worker[w].job},
           !.worker[w] = NoJob]
    /\ UNCHANGED <<breaker, flags>>
    /\ WorkflowIdle

\* the steps of worker w
worker(w) ==
    \/ worker_Dequeue(w)
    \/ \E err \in {OK} \cup DeliverErrors : deliverWithRetry_Deliver(w, err)
    \/ deliverWithRetry_Backoff(w)
    \/ worker_Finish(w)

NextWebhook ==
    \/ Trigger
    \/ \E w \in Workers : worker_ContextTimeout(w)
    \/ \E w \in Workers : worker(w)

\* goroutines are scheduled, timers fire and Deliver returns (HTTPDeliverer's
\* client has a 10 s timeout)
SpecWebhookFair ==
    InitWebhook /\ [][NextWebhook]_vars /\ \A w \in Workers : WF_vars(worker(w))

\* the attempts made so far for worker w's job respect the retry rule
RetryRule(w) ==
    LET k == webhook.worker[w]
        n == Len(k.log)
    IN  /\ n <= maxRetries
        /\ \A a \in 1 .. n - 1 : k.log[a] # OK
        /\ k.pc = "return" =>
              /\ n >= 1
              /\ k.err = OK <=> k.log[n] = OK
              /\ k.log[n] # OK /\ n = maxRetries => k.err = k.log[n]
              /\ k.log[n] # OK /\ n < maxRetries => k.err = DeadlineExceeded /\ k.ctxDone

\* a worker whose context is done while it waits in the back-off returns the
\* context's error in its next step, with no further attempt
CancelledBackoff(w) ==
    /\ webhook.worker[w].pc = "backoff"
    /\ webhook.worker[w].ctxDone
    /\ webhook'.worker[w] # webhook.worker[w]
    => /\ webhook'.worker[w].pc = "return"
       /\ webhook'.worker[w].err = DeadlineExceeded
       /\ webhook'.worker[w].log = webhook.worker[w].log

\* C30: deliverWithRetry calls Deliver at most maxRetries (3) times for a
\* job, makes no attempt after a successful one and then returns nil, returns
\* the last delivery error when all attempts fail, returns the context's
\* error without another attempt when the context is done during a back-off
\* wait, and every job a worker dequeues is eventually finished.
C30_BoundedRetry ==
    /\ [](\A w \in Workers : RetryRule(w))
    /\ [][\A w \in Workers : CancelledBackoff(w)]_vars
    /\ \A job \in 1 .. MaxJobs :
          (\E w \in Workers : webhook.worker[w].job = job) ~> (job \in webhook.finished)

\* one worker returns the last of three different delivery errors while the
\* other returns the context's error from a back-off, after an earlier job
\* was finished
C30_Witness ==
    /\ webhook.finished # {}
    /\ \E w1, w2 \in Workers :
          /\ webhook.worker[w1].pc = "return"
          /\ Len(webhook.worker[w1].log) = maxRetries
          /\ webhook.worker[w1].log[2] # webhook.worker[w1].log[3]
          /\ webhook.worker[w1].err = webhook.worker[w1].log[3]
          /\ webhook.worker[w1].err \in DeliverErrors
          /\ webhook.worker[w2].pc = "return"
          /\ webhook.worker[w2].err = DeadlineExceeded
          /\ Len(webhook.worker[w2].log) = 1

====
